---- MODULE Spec2Model ----
(***************************************************************************)
(* Media acquisition and local cache pipeline of vi-tg.                    *)
(*                                                                         *)
(* The model follows the download functions of the auth package            *)
(* (downloadStickerFile, downloadPhotoFile, downloadFileWithLocation,      *)
(* detectImageFormat, downloadVideoFile, downloadVoiceFile) and the file   *)
(* lookups of the REST server.  Every download call is a process that      *)
(* moves through the system calls of its function one at a time; the       *)
(* shared state is the /tmp directory, modelled as a directory (path ->    *)
(* inode) and the inodes' byte contents, so that os.Create's truncation    *)
(* of an existing file, os.Rename and os.Remove act as on a POSIX file     *)
(* system.  Network reads touch no shared state and are merged with the    *)
(* file operation that follows them.                                       *)
(***************************************************************************)
EXTENDS Integers, Sequences, FiniteSets, TLC

(***************************************************************************)
(* Bounds of the model.                                                    *)
(***************************************************************************)
\* chunkSize of the image, sticker and voice loops, scaled down from 512*1024
ChunkUnit == 4
\* download calls started in one behaviour when calls may overlap
MaxCalls == 2
\* download calls started in one behaviour of the single caller
MaxSeqCalls == 1
\* download calls started in a run where videos and previews overlap
MaxPrevCalls == 2
\* remote messages in the history MessagesGetHistory returns
MaxHistLen == 2
\* messages of the history with media to download
MaxMedia == 1
\* authorization attempts (AuthAndConnect or InitFromSession) in one behaviour
MaxAttempts == 2
\* sendCode requests in one behaviour
MaxCodes == 2
\* info.Size() < 100 of generateVideoPreview
MinPreviewSize == 100
\* -ss 00:00:01.000 and -ss 00:00:00.500 of the two ffmpeg commands, in ms
T1 == 1000
T2 == 500

\* caller slots: a call takes the lowest free one
Procs == {1, 2}
\* document ids and message ids in use
Ids == {1}
Kinds == {"sticker", "photo", "video", "voice"}
NoPath == <<>>

Min(a, b) == IF a < b THEN a ELSE b

(***************************************************************************)
(* Paths.  "/tmp/vi-tg_<prefix>_<id><suffix>" is the triple                *)
(* <<prefix, id, suffix>>.                                                 *)
(***************************************************************************)
Prefix(kind) ==
    CASE kind = "photo" -> "image"
      [] kind = "preview" -> "video_preview"
      [] OTHER -> kind

PathOf(kind, id, suffix) == <<Prefix(kind), id, suffix>>

\* the temp file of the sticker and image downloads
TempSuffix == "_temp"

\* the extension lists the download functions probe before downloading
possibleExtensions(kind) ==
    CASE kind = "sticker" -> <<".webp", ".png", ".jpg", ".jpeg">>
      [] kind = "photo"   -> <<".jpg", ".jpeg", ".png", ".webp", ".gif">>
      [] kind = "video"   -> <<".mp4", ".avi", ".mkv", ".mov", ".webm", ".flv">>
      [] kind = "voice"   -> <<".ogg", ".oga", ".mp3", ".wav", ".m4a", ".aac">>

\* sticker: size must be positive; photo, video, voice: existence alone
ProbeNeedsSize(kind) == kind = "sticker"

\* per-kind chunkSize: 1 MiB for video, 512 KiB otherwise
chunkSize(kind) == IF kind = "video" THEN 2 * ChunkUnit ELSE ChunkUnit

\* sticker and image downloads go through a temp file, video and voice
\* are written in place
UsesTemp(kind) == kind \in {"sticker", "photo"}

(***************************************************************************)
(* Bytes.                                                                  *)
(***************************************************************************)
Take(s, n) == SubSeq(s, 1, Min(n, Len(s)))

\* the number of bytes the server returns for a ranged read (offset, limit)
\* of an object of n bytes
ChunkLen(n, off, limit) == IF off >= n THEN 0 ELSE Min(limit, n - off)

\* the answer of the server to a ranged read (offset, limit)
Slice(obj, off, limit) == SubSeq(obj, off + 1, off + ChunkLen(Len(obj), off, limit))

Zeros(n) == [i \in 1..n |-> 0]

\* a plausible slip: every chunk is written to a file opened anew
WriteTruncating(content, pos, b) == b

\* f.Write of b through a descriptor whose position is pos
WriteAt(content, pos, b) ==
    LET old == IF Len(content) >= pos THEN content
               ELSE content \o Zeros(pos - Len(content))
        n == IF Len(old) > pos + Len(b) THEN Len(old) ELSE pos + Len(b)
    IN [i \in 1..n |-> IF i > pos /\ i <= pos + Len(b) THEN b[i - pos] ELSE old[i]]

IsPrefix(s, t) == Len(s) <= Len(t) /\ SubSeq(t, 1, Len(s)) = s

Fill(n) == [i \in 1..n |-> (i * 7) % 256]

WebpBytes == <<82, 73, 70, 70, 9, 9, 9, 9, 87, 69, 66, 80>>
JpegBytes == <<255, 216, 255, 224, 1, 2, 3, 4, 5, 6>>
\* an animated sticker: gzip, none of the image signatures
TgsBytes == <<31, 139, 8, 0, 0, 0, 0, 0, 0, 3, 237, 93, 91>>

(***************************************************************************)
(* detectImageFormat: the first 12 bytes of the file, fewer than 8 read    *)
(* give "", then JPEG, PNG, GIF, WEBP in this order.                       *)
(***************************************************************************)
detectImageFormat(bytes) ==
    LET n == Min(12, Len(bytes))
        header == [i \in 1..12 |-> IF i <= n THEN bytes[i] ELSE 0]
    IN IF n < 8 THEN ""
       ELSE IF header[1] = 255 /\ header[2] = 216 THEN ".jpg"
       ELSE IF /\ header[1] = 137 /\ header[2] = 80 /\ header[3] = 78 /\ header[4] = 71
               /\ header[5] = 13 /\ header[6] = 10 /\ header[7] = 26 /\ header[8] = 10
            THEN ".png"
       ELSE IF header[1] = 71 /\ header[2] = 73 /\ header[3] = 70 /\ header[4] = 56
            THEN ".gif"
       ELSE IF /\ header[1] = 82 /\ header[2] = 73 /\ header[3] = 70 /\ header[4] = 70
               /\ header[9] = 87 /\ header[10] = 69 /\ header[11] = 66 /\ header[12] = 80
            THEN ".webp"
       ELSE ""

(***************************************************************************)
(* Inputs of a download call.                                              *)
(***************************************************************************)
\* photo.Sizes entries: the type of the size and its declared width
PS90  == [t |-> "PhotoSize", w |-> 90]
PS1280 == [t |-> "PhotoSize", w |-> 1280]
STRIP == [t |-> "PhotoStrippedSize", w |-> 0]
EMPTY == [t |-> "PhotoSizeEmpty", w |-> 0]
CACHED == [t |-> "PhotoCachedSize", w |-> 50]

SizeItems == {PS90, PS1280, STRIP, EMPTY}

\* the photo of the scenario (widths 90, stripped, 1280) and a photo
\* without a usable size
FewSizes == {<<PS90, STRIP, PS1280>>, <<EMPTY, CACHED>>}

SeqsUpTo(S, n) == UNION {[1..k -> S] : k \in 0..n}

\* the size lists a photo may carry: all short lists when one call runs at
\* a time, two lists when calls run concurrently
PhotoInputs(m) ==
    IF m = "seq" THEN SeqsUpTo(SizeItems, 3) \cup FewSizes ELSE FewSizes

\* the sticker documents: a WebP image and, for the single caller, an
\* animated sticker as well
StickerDocs(m) == IF m = "seq" THEN {1, 2} ELSE {1}

\* the video documents: two remote objects, posted under the same message
\* id in different chats
VideoDocs == {1, 2}

\* the extension of the DocumentAttributeFilename, "" without one
VideoFileExt(doc) == IF doc = 1 THEN "" ELSE ".m4v"

FilenameExts(kind) ==
    IF kind = "video" THEN {VideoFileExt(doc) : doc \in VideoDocs} ELSE {"", ".opus"}

\* ext of downloadVideoFile / downloadVoiceFile: the default unless the
\* filename carries an extension
DeclaredExt(kind, fileExt) ==
    IF fileExt # "" THEN fileExt
    ELSE IF kind = "video" THEN ".mp4" ELSE ".ogg"

\* preferredExt of downloadStickerFile
PreferredExt(hasImageSize) == IF hasImageSize THEN ".png" ELSE ".webp"

(***************************************************************************)
(* The size list of downloadPhotoFile: the switch over the size types      *)
(* and the exchange sort by descending width.                              *)
(***************************************************************************)
RECURSIVE CollectSizes(_)
CollectSizes(sizes) ==
    IF sizes = <<>> THEN <<>>
    ELSE LET h == Head(sizes)
             rest == CollectSizes(Tail(sizes))
         IN CASE h.t \in {"PhotoSize", "PhotoSizeProgressive"} ->
                     <<[width |-> h.w, loc |-> h]>> \o rest
              [] h.t = "PhotoStrippedSize" -> <<[width |-> 0, loc |-> h]>> \o rest
              [] OTHER -> rest

Swap(s, i, j) == [s EXCEPT ![i] = s[j], ![j] = s[i]]

\* the list is bound as s, so that a pass works on the list the pass
\* before has produced and does not compute it anew at every use
RECURSIVE SortInner(_, _, _)
SortInner(list, i, j) ==
    CHOOSE r \in {IF j > Len(s) THEN s
                  ELSE SortInner(IF s[i].width < s[j].width THEN Swap(s, i, j) ELSE s,
                                 i, j + 1) : s \in {list}} : TRUE

RECURSIVE SortOuter(_, _)
SortOuter(list, i) ==
    CHOOSE r \in {IF i > Len(s) THEN s
                  ELSE SortOuter(SortInner(s, i, i + 1), i + 1) : s \in {list}} : TRUE

\* a plausible slip: the sizes are tried in the order received
Unsorted(s) == s

SortSizes(s) == SortOuter(s, 1)

(***************************************************************************)
(* The remote objects.  A document is identified by its id, a photo size   *)
(* by the photo and the size.                                              *)
(***************************************************************************)
PhotoObject(loc) ==
    CASE loc.w = 1280 -> JpegBytes
      [] loc.w = 90 -> Fill(ChunkUnit - 1)
      [] OTHER -> <<>>

DocObject(kind, id) ==
    CASE kind = "sticker" -> IF id = 1 THEN WebpBytes ELSE TgsBytes
      [] kind = "video" -> IF id = 1 THEN Fill(3 * ChunkUnit) ELSE <<77>>
      [] kind = "voice" -> Fill(ChunkUnit)
      [] OTHER -> <<>>

(***************************************************************************)
(* State.                                                                  *)
(***************************************************************************)
VARIABLES
    dir,       \* the cache directory: path -> inode, for the paths that exist
    data,      \* inode -> bytes, for the inodes a path or a descriptor holds
    mode,      \* "conc": calls overlap; "seq": one caller
    ncalls,    \* download calls started so far
    pc,        \* per caller: the place in the download function
    cur,       \* per caller: the arguments of the running (or last) call
    fd,        \* per caller: inode of the open file f, 0 when none
    offset,    \* per caller: offset of the fetch loop
    log,       \* per caller: the ranged reads of the current fetch loop
    attempts,  \* per caller: widths handed to downloadFileWithLocation
    fetched,   \* per caller: the call has issued a ranged read
    det,       \* per caller: detectedExt
    result,    \* per caller: what the last call returned
    probed,    \* per caller: outcome of the probe, "none" before it ends
    faulted,   \* per caller: a read, write, create or rename error was met
    maker,     \* path -> the call that created the name (by Create or Rename)
    returned,  \* successful returns so far: key, path and the bytes there
    failures,  \* per caller: fetches of the call that ended in failure
    expired,   \* per caller: a read was answered FILE_REFERENCE_EXPIRED
    tool,      \* per caller: the runs of the frame-extraction tool
    pvresult,  \* per caller: what generateVideoPreview returned
    arg,       \* the input a function is applied to
    out,       \* the value the function returned, NoOut before
    req,       \* per handler: the getLocationMap request it serves
    reply,     \* per handler: the response to the last request
    gm,        \* per caller: the GetMessages call it runs
    outbox,    \* per caller: result of GetMessages, the Messages appended
    signal,    \* the file /tmp/vi-tg-needs-code exists
    codeFile,  \* the file /tmp/vi-tg-auth-code: the code in it, NoCode when absent
    nsent,     \* sendCode requests so far
    api,       \* m.api: the attempt that set it, 0 for nil
    client,    \* m.client: the attempt that set it, 0 for nil
    att,       \* per authorization attempt: its goroutine, waiter and channel
    authStatus \* the last response of getAuthStatus

vars == <<dir, data, mode, ncalls, pc, cur, fd, offset, log,
          attempts, fetched, det, result, probed, faulted, maker, returned,
          failures, expired, tool, pvresult, arg, out, req, reply, gm, outbox,
          signal, codeFile, nsent, api, client, att, authStatus>>

\* the state of a function application, of the map handlers, of GetMessages
PureVars == <<arg, out>>
MapVars == <<req, reply>>
MsgVars == <<gm, outbox>>
AuthVars == <<signal, codeFile, nsent, api, client, att, authStatus>>

\* generateVideoPreview has not run for the video of the caller
NotRun == <<0>>

NoCall == [cid |-> 0, kind |-> "none", id |-> 0, doc |-> 0, ext |-> "", legacy |-> FALSE,
           sizes |-> <<>>, vi |-> 0, prior |-> {}]

\* callers that run: one in "seq", both otherwise
Active(m) == IF m = "seq" THEN {1} ELSE Procs

CallLimit(m) ==
    CASE m = "seq" -> MaxSeqCalls
      [] m = "prev" -> MaxPrevCalls
      [] m = "msg" -> Cardinality(Procs) * MaxHistLen
      [] OTHER -> MaxCalls

Busy(p) == pc[p] \notin {"idle", "done"}

\* what the caller is running: a download of some kind, or the preview
Running(p) ==
    IF pc[p] \in {"pv_probe", "pv_run", "pv_tool", "pv_stat1", "pv_stat2", "pv_size",
                  "pv_rename", "pv_final", "panic"}
    THEN "preview" ELSE cur[p].kind

\* the operations that run while another caller is busy: the downloads in
\* "conc", the video downloads and the previews in "prev"
MayOverlap(m, kind) ==
    CASE m = "conc" -> kind \in Kinds
      [] m = "prev" -> kind \in {"video", "preview"}
      [] m = "msg" -> kind = "preview"
      [] OTHER -> FALSE

\* an operation of this kind may start now
MayStart(kind) ==
    \A q \in Procs : Busy(q) => MayOverlap(mode, kind) /\ MayOverlap(mode, Running(q))

PreviewPath(id) == PathOf("preview", id, ".jpg")

TempPreviewPath(id) == PathOf("preview", id, "_temp.jpg")

\* a frame as ffmpeg writes it, and one below the size floor
FullFrame == Fill(MinPreviewSize)
SmallFrame == Fill(MinPreviewSize - 1)

\* the cache directory at start: empty, or holding the file an earlier run
\* has published for one of the kinds
Preloaded(kind) ==
    CASE kind = "sticker" -> [path |-> PathOf(kind, 1, ".webp"), bytes |-> WebpBytes]
      [] kind = "photo"   -> [path |-> PathOf(kind, 1, ".jpg"), bytes |-> JpegBytes]
      [] kind = "video"   -> [path |-> PathOf(kind, 1, ".mp4"), bytes |-> DocObject(kind, 1)]
      [] kind = "voice"   -> [path |-> PathOf(kind, 1, ".ogg"), bytes |-> DocObject(kind, 1)]
      [] kind = "preview" -> [path |-> PreviewPath(1), bytes |-> FullFrame]

\* no function applied, no map request, no GetMessages call
NoOut == <<>>

NoReq == [rid |-> 0, loc |-> 0, lat |-> 0, lng |-> 0, hit |-> FALSE, tile |-> "none",
          image |-> <<>>, wrote |-> <<>>, ioerr |-> FALSE]

NoReply == [status |-> 0, body |-> <<>>]

NoGm == [at |-> "none", left |-> <<>>, todo |-> <<>>, ran |-> <<>>, list |-> <<>>]

\* no code file
NoCode == <<>>

Attempts == 1..MaxAttempts

\* an attempt not started: kind of the attempt, place of its goroutine (g)
\* and of the caller waiting in the select (w), the buffer of authDone, the
\* error client.Run returned, nsent when Code wrote the signal file, the
\* sendCode request whose code Code returned (0 for none)
NoAttempt == [kind |-> "none", g |-> "idle", w |-> "idle", ch |-> <<>>, err |-> "nil",
              codeAt |-> 0, code |-> 0]

NoStatus == [authorized |-> FALSE, needs_code |-> FALSE]

AuthIdle ==
    /\ signal = FALSE
    /\ codeFile = NoCode
    /\ nsent = 0
    /\ api = 0
    /\ client = 0
    /\ att = [a \in Attempts |-> NoAttempt]
    /\ authStatus = NoStatus

ServerIdle ==
    /\ req = [p \in Procs |-> NoReq]
    /\ reply = [p \in Procs |-> NoReply]
    /\ gm = [p \in Procs |-> NoGm]
    /\ outbox = [p \in Procs |-> NoOut]
    /\ AuthIdle

\* the download state at start
InitCache(m, preloads) ==
    /\ \E k \in preloads :
         IF k = "none"
         THEN /\ dir = [q \in {} |-> 0]
              /\ data = [i \in {} |-> <<>>]
              /\ maker = [q \in {} |-> 0]
         ELSE /\ dir = [q \in {Preloaded(k).path} |-> 1]
              /\ data = [i \in {1} |-> Preloaded(k).bytes]
              /\ maker = [q \in {Preloaded(k).path} |-> 0]
    /\ mode = m
    /\ ncalls = 0
    /\ pc = [p \in Procs |-> "idle"]
    /\ cur = [p \in Procs |-> NoCall]
    /\ fd = [p \in Procs |-> 0]
    /\ offset = [p \in Procs |-> 0]
    /\ log = [p \in Procs |-> <<>>]
    /\ attempts = [p \in Procs |-> <<>>]
    /\ fetched = [p \in Procs |-> FALSE]
    /\ det = [p \in Procs |-> ""]
    /\ result = [p \in Procs |-> NoPath]
    /\ probed = [p \in Procs |-> "none"]
    /\ faulted = [p \in Procs |-> FALSE]
    /\ returned = {}
    /\ failures = [p \in Procs |-> 0]
    /\ expired = [p \in Procs |-> FALSE]
    /\ tool = [p \in Procs |-> <<>>]
    /\ pvresult = [p \in Procs |-> NotRun]

InitWith(m, preloads) ==
    /\ InitCache(m, preloads)
    /\ arg = <<>>
    /\ out = NoOut
    /\ ServerIdle

Init == InitWith("conc", {"none"})

InitSeq == InitWith("seq", {"none"} \cup Kinds)

InitPrev == InitWith("prev", {"none", "video", "preview"})

(***************************************************************************)
(* File system.                                                            *)
(***************************************************************************)
Exists(d, path) == path \in DOMAIN d

\* os.Stat(path).Size()
SizeOf(d, dt, path) == Len(dt[d[path]])

Missing == <<-1>>

\* os.ReadFile(path)
ContentIn(d, dt, path) == IF Exists(d, path) THEN dt[d[path]] ELSE Missing

Content(path) == ContentIn(dir, data, path)

LiveInodes(d, f) == ({d[q] : q \in DOMAIN d} \cup {f[p] : p \in Procs}) \ {0}

FreshInode ==
    LET used == LiveInodes(dir, fd)
    IN CHOOSE i \in 1..(Cardinality(used) + 1) : i \notin used

\* a plausible slip: the file is not removed
UnlinkNothing(d, path) == d

\* os.Remove(path): the name goes, the inode stays with its open descriptors
Unlink(d, path) == [q \in DOMAIN d \ {path} |-> d[q]]

\* os.Rename(from, to): to names from's inode
Relink(d, from, to) == [q \in (DOMAIN d \cup {to}) \ {from} |-> IF q = to THEN d[from] ELSE d[q]]

\* the file system after a step of the call c: inodes nothing refers to are
\* gone, and a name that is new or names another inode was made by c
Fs(c, dirN, dataN, fdN) ==
    /\ dir' = dirN
    /\ fd' = fdN
    /\ data' = [i \in LiveInodes(dirN, fdN) |-> dataN[i]]
    /\ maker' = [q \in DOMAIN dirN |->
                   IF q \in DOMAIN dir /\ dir[q] = dirN[q] THEN maker[q] ELSE c]

(***************************************************************************)
(* The running call.                                                       *)
(***************************************************************************)
\* sizes of downloadPhotoFile after the sort
Variants(p) == SortSizes(CollectSizes(cur[p].sizes))

\* a plausible slip: the sticker download uses the temp file of the images
TargetSharedTemp(p) ==
    IF UsesTemp(cur[p].kind) THEN PathOf("photo", cur[p].id, TempSuffix)
    ELSE PathOf(cur[p].kind, cur[p].id, cur[p].ext)

\* the file the call writes: the temp file, or the final file for video/voice
Target(p) ==
    IF UsesTemp(cur[p].kind) THEN PathOf(cur[p].kind, cur[p].id, TempSuffix)
    ELSE PathOf(cur[p].kind, cur[p].id, cur[p].ext)

\* the object behind the location the fetch loop reads
Object(p) ==
    IF cur[p].kind = "photo" THEN PhotoObject(Variants(p)[cur[p].vi].loc)
    ELSE DocObject(cur[p].kind, cur[p].doc)

\* the extension used when detectImageFormat returns ""
FallbackExt(p) == IF cur[p].kind = "sticker" THEN cur[p].ext ELSE ".png"

Key(p) == <<cur[p].kind, cur[p].id>>

\* the call returns path ("" is NoPath); f is closed by the deferred Close
Return(p, path, dirN, dataN) ==
    /\ pc' = [pc EXCEPT ![p] = "done"]
    /\ result' = [result EXCEPT ![p] = path]
    /\ cur' = cur
    /\ offset' = [offset EXCEPT ![p] = 0]
    /\ log' = [log EXCEPT ![p] = <<>>]
    /\ det' = [det EXCEPT ![p] = ""]
    /\ returned' =
         IF path = NoPath THEN returned
         ELSE returned \cup {[cid |-> cur[p].cid, key |-> Key(p), doc |-> cur[p].doc,
                              sizes |-> cur[p].sizes, path |-> path,
                              bytes |-> ContentIn(dirN, dataN, path)]}
    /\ Fs(cur[p].cid, dirN, dataN, [fd EXCEPT ![p] = 0])

\* a plausible slip: the first failed fetch ends the call
FailAbortsCall(p, dirN, dataN) ==
    /\ failures' = [failures EXCEPT ![p] = @ + 1]
    /\ Return(p, NoPath, dirN, dataN)

\* the fetch of this location failed: downloadPhotoFile goes on with the next
\* size, every other caller returns ""
Fail(p, dirN, dataN) ==
    /\ failures' = [failures EXCEPT ![p] = @ + 1]
    /\ IF cur[p].kind = "photo" /\ cur[p].vi < Len(Variants(p))
       THEN /\ pc' = [pc EXCEPT ![p] = "create"]
            /\ cur' = [cur EXCEPT ![p].vi = @ + 1]
            /\ offset' = [offset EXCEPT ![p] = 0]
            /\ log' = [log EXCEPT ![p] = <<>>]
            /\ det' = [det EXCEPT ![p] = ""]
            /\ UNCHANGED <<result, returned>>
            /\ Fs(cur[p].cid, dirN, dataN, [fd EXCEPT ![p] = 0])
       ELSE Return(p, NoPath, dirN, dataN)

(***************************************************************************)
(* A download call starts.                                                 *)
(***************************************************************************)
Begin(p, call, first) ==
    /\ p \in Active(mode)
    /\ pc[p] \in {"idle", "done"}
    /\ mode = "msg" \/ \A q \in Procs : q < p => pc[q] \notin {"idle", "done"}
    /\ MayStart(call.kind)
    /\ ncalls < CallLimit(mode)
    /\ ncalls' = ncalls + 1
    /\ cur' = [cur EXCEPT ![p] =
                 [call EXCEPT !.cid = ncalls + 1,
                              !.prior = {r \in returned : /\ r.key = <<call.kind, call.id>>
                                                          /\ r.doc = call.doc
                                                          /\ r.sizes = call.sizes}]]
    /\ pc' = [pc EXCEPT ![p] = first]
    /\ probed' = [probed EXCEPT ![p] = "none"]
    /\ faulted' = [faulted EXCEPT ![p] = FALSE]
    /\ offset' = [offset EXCEPT ![p] = 0]
    /\ log' = [log EXCEPT ![p] = <<>>]
    /\ attempts' = [attempts EXCEPT ![p] = <<>>]
    /\ fetched' = [fetched EXCEPT ![p] = FALSE]
    /\ det' = [det EXCEPT ![p] = ""]
    /\ result' = [result EXCEPT ![p] = NoPath]
    /\ failures' = [failures EXCEPT ![p] = 0]
    /\ expired' = [expired EXCEPT ![p] = FALSE]
    /\ tool' = [tool EXCEPT ![p] = <<>>]
    /\ pvresult' = [pvresult EXCEPT ![p] = NotRun]
    /\ UNCHANGED <<dir, data, fd, maker, mode, PureVars, MapVars, AuthVars, returned>>

\* downloadStickerFile(api, doc)
StartSticker(p) ==
    \E id \in StickerDocs(mode), hasImageSize \in BOOLEAN :
        /\ Begin(p, [NoCall EXCEPT !.kind = "sticker", !.id = id, !.doc = id,
                                   !.ext = PreferredExt(hasImageSize)], "probe")
        /\ UNCHANGED <<MsgVars, AuthVars>>

\* downloadPhotoFile(api, photo, messageID) of the backend's auth package
StartPhoto(p) ==
    \E id \in Ids, sizes \in PhotoInputs(mode) :
        /\ Begin(p, [NoCall EXCEPT !.kind = "photo", !.id = id, !.sizes = sizes], "probe")
        /\ UNCHANGED <<MsgVars, AuthVars>>

\* downloadPhotoFile of auth/mtproto.go: no look at the cache directory
StartPhotoLegacy(p) ==
    \E id \in Ids, sizes \in FewSizes :
        /\ Begin(p, [NoCall EXCEPT !.kind = "photo", !.id = id, !.sizes = sizes,
                                   !.legacy = TRUE], "sizes")
        /\ UNCHANGED <<MsgVars, AuthVars>>

\* downloadVideoFile(api, doc, messageID)
StartVideo(p) ==
    \E id \in Ids, doc \in VideoDocs :
        /\ Begin(p, [NoCall EXCEPT !.kind = "video", !.id = id, !.doc = doc,
                                   !.ext = DeclaredExt("video", VideoFileExt(doc))], "probe")
        /\ UNCHANGED <<MsgVars, AuthVars>>

\* downloadVoiceFile(api, doc, messageID)
StartVoice(p) ==
    \E id \in Ids, fileExt \in FilenameExts("voice") :
        /\ Begin(p, [NoCall EXCEPT !.kind = "voice", !.id = id, !.doc = id,
                                   !.ext = DeclaredExt("voice", fileExt)], "probe")
        /\ UNCHANGED <<MsgVars, AuthVars>>

(***************************************************************************)
(* The probe of the cache directory: os.Stat of every extension in order,  *)
(* the first one accepted is returned.                                     *)
(***************************************************************************)
\* the condition under which the probe returns the path it looks at
ProbeAccepts(kind, d, dt, path) ==
    /\ Exists(d, path)
    /\ ProbeNeedsSize(kind) => SizeOf(d, dt, path) > 0

RECURSIVE FirstAccepted(_, _, _, _, _)
FirstAccepted(kind, id, exts, d, dt) ==
    IF exts = <<>> THEN NoPath
    ELSE IF ProbeAccepts(kind, d, dt, PathOf(kind, id, Head(exts)))
         THEN PathOf(kind, id, Head(exts))
         ELSE FirstAccepted(kind, id, Tail(exts), d, dt)

Lookup(kind, id) == FirstAccepted(kind, id, possibleExtensions(kind), dir, data)

ProbeHit(p) ==
    /\ pc[p] = "probe"
    /\ Lookup(cur[p].kind, cur[p].id) # NoPath
    /\ Return(p, Lookup(cur[p].kind, cur[p].id), dir, data)
    /\ probed' = [probed EXCEPT ![p] = "hit"]
    /\ UNCHANGED <<mode, ncalls, PureVars, MapVars, MsgVars, AuthVars, tool, pvresult, expired, failures, attempts, fetched, faulted>>

ProbeMiss(p) ==
    /\ pc[p] = "probe"
    /\ Lookup(cur[p].kind, cur[p].id) = NoPath
    /\ pc' = [pc EXCEPT ![p] = IF cur[p].kind = "photo" THEN "sizes" ELSE "create"]
    /\ probed' = [probed EXCEPT ![p] = "miss"]
    /\ UNCHANGED <<dir, data, fd, maker, mode, ncalls, PureVars, MapVars, MsgVars, AuthVars, tool, pvresult, expired, failures, cur, offset, log, attempts, fetched,
                   det, result, faulted, returned>>

\* downloadPhotoFile collects and sorts the sizes; with none it returns ""
PhotoSizes(p) ==
    /\ pc[p] = "sizes"
    /\ IF Variants(p) = <<>>
       THEN Return(p, NoPath, dir, data)
       ELSE /\ pc' = [pc EXCEPT ![p] = "create"]
            /\ cur' = [cur EXCEPT ![p].vi = 1]
            /\ UNCHANGED <<dir, data, fd, maker, offset, log, det, result, returned>>
    /\ UNCHANGED <<mode, ncalls, PureVars, MapVars, MsgVars, AuthVars, tool, pvresult, expired, failures, attempts, fetched, probed, faulted>>

(***************************************************************************)
(* os.Create of the file the call writes.                                  *)
(***************************************************************************)
Attempted(p) ==
    IF cur[p].kind = "photo" THEN Append(attempts[p], Variants(p)[cur[p].vi].width)
    ELSE attempts[p]

Create(p) ==
    /\ pc[p] = "create"
    /\ LET t == Target(p)
           i == IF Exists(dir, t) THEN dir[t] ELSE FreshInode
           dirN == [q \in DOMAIN dir \cup {t} |-> IF q = t THEN i ELSE dir[q]]
           dataN == [j \in DOMAIN data \cup {i} |-> IF j = i THEN <<>> ELSE data[j]]
       IN Fs(cur[p].cid, dirN, dataN, [fd EXCEPT ![p] = i])
    /\ pc' = [pc EXCEPT ![p] = "fetch"]
    /\ offset' = [offset EXCEPT ![p] = 0]
    /\ log' = [log EXCEPT ![p] = <<>>]
    /\ attempts' = [attempts EXCEPT ![p] = Attempted(p)]
    /\ UNCHANGED <<mode, ncalls, PureVars, MapVars, MsgVars, AuthVars, tool, pvresult, expired, failures, cur, fetched, det, result, probed, faulted, returned>>

CreateFail(p) ==
    /\ pc[p] = "create"
    /\ attempts' = [attempts EXCEPT ![p] = Attempted(p)]
    /\ faulted' = [faulted EXCEPT ![p] = TRUE]
    /\ Fail(p, dir, data)
    /\ UNCHANGED <<mode, ncalls, PureVars, MapVars, MsgVars, AuthVars, tool, pvresult, expired, fetched, probed>>

(***************************************************************************)
(* One iteration of the fetch loop: api.UploadGetFile at the current       *)
(* offset, on a CDN redirect api.UploadGetCDNFile at the same offset, and  *)
(* f.Write of a chunk that is not empty.                                   *)
(***************************************************************************)
Limit(p) == chunkSize(cur[p].kind)

Chunk(p) == Slice(Object(p), offset[p], Limit(p))

Read(ep, off, resp, n) == [ep |-> ep, off |-> off, resp |-> resp, n |-> n]

\* the server: a file that has moved to the CDN stays there, so that a
\* location once answered with a redirect is answered with one again
OnCdn(p) == \E i \in 1..Len(log[p]) : log[p][i].resp = "redirect"

\* with one caller a file may move to the CDN between two reads; with
\* overlapping calls it is on the CDN from the first read or not at all
MayRedirect(p) == mode = "seq" \/ log[p] = <<>> \/ OnCdn(p)

\* the requests of an iteration that ends with a data chunk
DataReads(p, viaCdn) ==
    IF viaCdn
    THEN <<Read("origin", offset[p], "redirect", 0),
           Read("cdn", offset[p], "data", Len(Chunk(p)))>>
    ELSE <<Read("origin", offset[p], "data", Len(Chunk(p)))>>

\* a plausible slip: only the empty chunk ends the loop
FinishedOnEmptyOnly(n, limit) == n = 0

\* a plausible slip: no chunk ends the loop
NeverFinished(n, limit) == FALSE

\* finished: an empty chunk, or a chunk shorter than the limit
Finished(n, limit) == n = 0 \/ n < limit

\* the chunk lengths the loop receives for an object of n bytes read from
\* offset off, when every read is answered with data
RECURSIVE LoopChunks(_, _, _)
LoopChunks(n, off, limit) ==
    LET l == ChunkLen(n, off, limit)
    IN IF Finished(l, limit) THEN <<l>> ELSE <<l>> \o LoopChunks(n, off + l, limit)

\* a plausible slip: the offset of the next read is not advanced
NextOffsetStuck(off, n) == off

\* offset += int64(len(file.Bytes))
NextOffset(off, n) == off + n

FetchData(p, viaCdn) ==
    /\ pc[p] = "fetch"
    /\ OnCdn(p) => viaCdn
    /\ viaCdn => MayRedirect(p)
    /\ log' = [log EXCEPT ![p] = @ \o DataReads(p, viaCdn)]
    /\ fetched' = [fetched EXCEPT ![p] = TRUE]
    /\ offset' = [offset EXCEPT ![p] = NextOffset(@, Len(Chunk(p)))]
    /\ pc' = [pc EXCEPT ![p] = IF Finished(Len(Chunk(p)), Limit(p)) THEN "stat" ELSE "fetch"]
    /\ Fs(cur[p].cid, dir,
          IF Chunk(p) = <<>> THEN data
          ELSE [data EXCEPT ![fd[p]] = WriteAt(@, offset[p], Chunk(p))],
          fd)
    /\ UNCHANGED <<mode, ncalls, PureVars, MapVars, MsgVars, AuthVars, tool, pvresult, expired, failures, cur, attempts, det, result, probed, faulted, returned>>

OriginFailures == {"error", "expired", "unrecognized", "write"}
CdnFailures == {"cdn_error", "cdn_unrecognized", "cdn_write"}
FailureKinds == OriginFailures \cup CdnFailures

\* every failure inside the loop: os.Remove of the file, then return ""
FetchFailure(p, why) ==
    /\ pc[p] = "fetch"
    /\ why \in {"write", "cdn_write"} => Chunk(p) # <<>>
    /\ OnCdn(p) => why # "write"
    /\ why \in CdnFailures => MayRedirect(p)
    /\ fetched' = [fetched EXCEPT ![p] = TRUE]
    /\ faulted' = [faulted EXCEPT ![p] = TRUE]
    /\ expired' = [expired EXCEPT ![p] = @ \/ why = "expired"]
    /\ Fail(p, Unlink(dir, Target(p)), data)
    /\ UNCHANGED <<mode, ncalls, PureVars, MapVars, MsgVars, AuthVars, tool, pvresult, attempts, probed>>

(***************************************************************************)
(* After the loop: os.Stat, detectImageFormat, os.Rename.                  *)
(***************************************************************************)
Stat(p) ==
    /\ pc[p] = "stat"
    /\ IF Exists(dir, Target(p)) /\ SizeOf(dir, data, Target(p)) > 0
       THEN IF UsesTemp(cur[p].kind)
            THEN /\ pc' = [pc EXCEPT ![p] = "detect"]
                 /\ UNCHANGED <<dir, data, fd, maker, cur, offset, log, det, result,
                                returned>>
            ELSE Return(p, Target(p), dir, data)
       ELSE /\ pc' = [pc EXCEPT ![p] = "cleanup"]
            /\ UNCHANGED <<dir, data, fd, maker, cur, offset, log, det, result, returned>>
    /\ UNCHANGED <<mode, ncalls, PureVars, MapVars, MsgVars, AuthVars, tool, pvresult, expired, failures, attempts, fetched, probed, faulted>>

\* os.Remove of the file and return ""
Cleanup(p) ==
    /\ pc[p] = "cleanup"
    /\ Fail(p, Unlink(dir, Target(p)), data)
    /\ UNCHANGED <<mode, ncalls, PureVars, MapVars, MsgVars, AuthVars, tool, pvresult, expired, attempts, fetched, probed, faulted>>

Detect(p) ==
    /\ pc[p] = "detect"
    /\ LET d == IF Exists(dir, Target(p)) THEN detectImageFormat(Content(Target(p)))
                ELSE ""
       IN det' = [det EXCEPT ![p] = IF d = "" THEN FallbackExt(p) ELSE d]
    /\ pc' = [pc EXCEPT ![p] = "rename"]
    /\ UNCHANGED <<dir, data, fd, maker, mode, ncalls, PureVars, MapVars, MsgVars, AuthVars, tool, pvresult, expired, failures, cur, offset, log,
                   attempts, fetched, result, probed, faulted, returned>>

FinalPath(p) == PathOf(cur[p].kind, cur[p].id, det[p])

Rename(p) ==
    /\ pc[p] = "rename"
    /\ Exists(dir, Target(p))
    /\ Return(p, FinalPath(p), Relink(dir, Target(p), FinalPath(p)), data)
    /\ UNCHANGED <<mode, ncalls, PureVars, MapVars, MsgVars, AuthVars, tool, pvresult, expired, failures, attempts, fetched, probed, faulted>>

\* os.Rename returns an error: the temp file is gone, or the file system refuses
RenameFail(p, refused) ==
    /\ pc[p] = "rename"
    /\ refused \/ ~Exists(dir, Target(p))
    /\ pc' = [pc EXCEPT ![p] = "cleanup"]
    /\ faulted' = [faulted EXCEPT ![p] = faulted[p] \/ refused]
    /\ UNCHANGED <<dir, data, fd, maker, mode, ncalls, PureVars, MapVars, MsgVars, AuthVars, tool, pvresult, expired, failures, cur, offset, log,
                   attempts, fetched, det, result, probed, returned>>

(***************************************************************************)
(* generateVideoPreview(videoPath, messageID), called by processMessage    *)
(* with the path downloadVideoFile has returned.  ffmpeg writes the temp   *)
(* preview in place: it opens the file, then writes the frame.             *)
(***************************************************************************)
\* what a run of ffmpeg does: it exits with an error ("error", or
\* "error_partial" after it has opened the output), or it exits with status
\* 0 and has written a frame, a frame below the size floor, or no file
ToolOutcomes == {"error", "error_partial", "frame", "small", "nothing"}

ToolFailed(outcome) == outcome \in {"error", "error_partial"}

ToolWrites(outcome) == outcome \in {"error_partial", "frame", "small"}

ToolBytes(outcome) ==
    CASE outcome = "frame" -> FullFrame
      [] outcome = "small" -> SmallFrame
      [] OTHER -> <<>>

\* the state the download part of the caller keeps while the preview runs
DownloadVars == <<mode, ncalls, PureVars, MapVars, MsgVars, AuthVars, cur, offset, log, attempts, fetched, det, result,
                  probed, faulted, returned, failures, expired>>

StartPreview(p) ==
    /\ p \in Active(mode)
    /\ pc[p] = "done"
    /\ cur[p].kind = "video"
    /\ result[p] # NoPath
    /\ pvresult[p] = NotRun
    /\ MayStart("preview")
    /\ pc' = [pc EXCEPT ![p] = "pv_probe"]
    /\ tool' = [tool EXCEPT ![p] = <<>>]
    /\ UNCHANGED <<dir, data, fd, maker, pvresult, DownloadVars>>

\* generateVideoPreview returns path ("" is NoPath)
PvReturn(p, path, dirN, dataN) ==
    /\ pc' = [pc EXCEPT ![p] = "done"]
    /\ pvresult' = [pvresult EXCEPT ![p] = path]
    /\ Fs(cur[p].cid, dirN, dataN, [fd EXCEPT ![p] = 0])

\* a plausible slip: the video file is looked at before the preview
PvProbeVideoFirst(p) ==
    /\ pc[p] = "pv_probe"
    /\ IF ~Exists(dir, result[p])
       THEN PvReturn(p, NoPath, dir, data)
       ELSE IF Exists(dir, PreviewPath(cur[p].id))
       THEN PvReturn(p, PreviewPath(cur[p].id), dir, data)
       ELSE /\ pc' = [pc EXCEPT ![p] = "pv_run"]
            /\ UNCHANGED <<dir, data, fd, maker, pvresult>>
    /\ UNCHANGED <<tool, DownloadVars>>

\* the preview exists: return it; the video does not: return ""
PvProbe(p) ==
    /\ pc[p] = "pv_probe"
    /\ IF Exists(dir, PreviewPath(cur[p].id))
       THEN PvReturn(p, PreviewPath(cur[p].id), dir, data)
       ELSE IF ~Exists(dir, result[p])
       THEN PvReturn(p, NoPath, dir, data)
       ELSE /\ pc' = [pc EXCEPT ![p] = "pv_run"]
            /\ UNCHANGED <<dir, data, fd, maker, pvresult>>
    /\ UNCHANGED <<tool, DownloadVars>>

\* exec.Command("sh", "-c", previewCmd): the first run seeks to T1, the
\* second to T2; a run that writes opens the temp preview and truncates it
ToolStart(p, outcome) ==
    /\ pc[p] = "pv_run"
    /\ tool' = [tool EXCEPT ![p] =
                  Append(@, [ts |-> IF @ = <<>> THEN T1 ELSE T2, outcome |-> outcome])]
    /\ pc' = [pc EXCEPT ![p] = "pv_tool"]
    /\ IF ToolWrites(outcome)
       THEN LET t == TempPreviewPath(cur[p].id)
                i == IF Exists(dir, t) THEN dir[t] ELSE FreshInode
                dirN == [q \in DOMAIN dir \cup {t} |-> IF q = t THEN i ELSE dir[q]]
                dataN == [j \in DOMAIN data \cup {i} |-> IF j = i THEN <<>> ELSE data[j]]
            IN Fs(cur[p].cid, dirN, dataN, [fd EXCEPT ![p] = i])
       ELSE UNCHANGED <<dir, data, fd, maker>>
    /\ UNCHANGED <<pvresult, DownloadVars>>

\* the run ends and CombinedOutput returns: after an error of the first run
\* the second run follows, after an error of the second the call returns ""
ToolExit(p) ==
    /\ pc[p] = "pv_tool"
    /\ LET o == tool[p][Len(tool[p])].outcome
           dataN == IF fd[p] # 0 /\ ToolBytes(o) # <<>>
                    THEN [data EXCEPT ![fd[p]] = WriteAt(@, 0, ToolBytes(o))]
                    ELSE data
       IN IF ToolFailed(o) /\ Len(tool[p]) >= 2
          THEN PvReturn(p, NoPath, dir, dataN)
          ELSE /\ pc' = [pc EXCEPT ![p] = IF ToolFailed(o) THEN "pv_run" ELSE "pv_stat1"]
               /\ Fs(cur[p].cid, dir, dataN, [fd EXCEPT ![p] = 0])
               /\ UNCHANGED pvresult
    /\ UNCHANGED <<tool, DownloadVars>>

\* os.Stat(tempPreviewPath) after the run that exited with status 0
PvStat1(p) ==
    /\ pc[p] = "pv_stat1"
    /\ IF Exists(dir, TempPreviewPath(cur[p].id))
       THEN /\ pc' = [pc EXCEPT ![p] = "pv_stat2"]
            /\ UNCHANGED <<dir, data, fd, maker, pvresult>>
       ELSE PvReturn(p, NoPath, dir, data)
    /\ UNCHANGED <<tool, DownloadVars>>

\* the second os.Stat(tempPreviewPath)
PvStat2(p) ==
    /\ pc[p] = "pv_stat2"
    /\ IF Exists(dir, TempPreviewPath(cur[p].id))
       THEN /\ pc' = [pc EXCEPT ![p] = "pv_size"]
            /\ UNCHANGED <<dir, data, fd, maker, pvresult>>
       ELSE PvReturn(p, NoPath, dir, data)
    /\ UNCHANGED <<tool, DownloadVars>>

\* the size check: with err != nil the argument info.Size() of debugLog is
\* evaluated on a nil FileInfo, which panics; below the floor the temp file
\* is removed and the call returns ""
PvSize(p) ==
    /\ pc[p] = "pv_size"
    /\ LET t == TempPreviewPath(cur[p].id)
       IN IF ~Exists(dir, t)
          THEN /\ pc' = [pc EXCEPT ![p] = "panic"]
               /\ UNCHANGED <<dir, data, fd, maker, pvresult>>
          ELSE IF SizeOf(dir, data, t) < MinPreviewSize
          THEN PvReturn(p, NoPath, Unlink(dir, t), data)
          ELSE /\ pc' = [pc EXCEPT ![p] = "pv_rename"]
               /\ UNCHANGED <<dir, data, fd, maker, pvresult>>
    /\ UNCHANGED <<tool, DownloadVars>>

\* os.Rename(tempPreviewPath, previewPath); on an error os.Remove, return ""
PvRename(p) ==
    /\ pc[p] = "pv_rename"
    /\ LET t == TempPreviewPath(cur[p].id)
       IN IF Exists(dir, t)
          THEN /\ pc' = [pc EXCEPT ![p] = "pv_final"]
               /\ Fs(cur[p].cid, Relink(dir, t, PreviewPath(cur[p].id)), data, fd)
               /\ UNCHANGED pvresult
          ELSE PvReturn(p, NoPath, dir, data)
    /\ UNCHANGED <<tool, DownloadVars>>

\* the final os.Stat(previewPath)
PvFinal(p) ==
    /\ pc[p] = "pv_final"
    /\ PvReturn(p, IF Exists(dir, PreviewPath(cur[p].id)) THEN PreviewPath(cur[p].id)
                   ELSE NoPath, dir, data)
    /\ UNCHANGED <<tool, DownloadVars>>

(***************************************************************************)
(* The specifications.                                                     *)
(***************************************************************************)
Next ==
    \E p \in Procs :
        \/ StartSticker(p)
        \/ StartPhoto(p)
        \/ StartPhotoLegacy(p)
        \/ StartVideo(p)
        \/ StartVoice(p)
        \/ ProbeHit(p)
        \/ ProbeMiss(p)
        \/ PhotoSizes(p)
        \/ Create(p)
        \/ CreateFail(p)
        \/ \E viaCdn \in BOOLEAN : FetchData(p, viaCdn)
        \/ \E why \in FailureKinds : FetchFailure(p, why)
        \/ Stat(p)
        \/ Cleanup(p)
        \/ Detect(p)
        \/ Rename(p)
        \/ \E refused \in BOOLEAN : RenameFail(p, refused)
        \/ StartPreview(p)
        \/ PvProbe(p)
        \/ \E outcome \in ToolOutcomes : ToolStart(p, outcome)
        \/ ToolExit(p)
        \/ PvStat1(p)
        \/ PvStat2(p)
        \/ PvSize(p)
        \/ PvRename(p)
        \/ PvFinal(p)

\* calls may overlap
Spec == Init /\ [][Next]_vars

\* one caller, every short size list
SpecSeq == InitSeq /\ [][Next]_vars

\* video downloads and previews overlap
SpecPrev == InitPrev /\ [][Next]_vars

\* one iteration of the fetch loop of p: every ranged read is answered
FetchStep(p) ==
    \/ \E viaCdn \in BOOLEAN : FetchData(p, viaCdn)
    \/ \E why \in FailureKinds : FetchFailure(p, why)

\* one caller whose reads are all answered: no fetch loop stalls
SpecLive == InitSeq /\ [][Next]_vars /\ \A p \in Procs : WF_vars(FetchStep(p))

(***************************************************************************)
(* detectImageFormat applied to the files a download may have written:     *)
(* every prefix of a set of sample files.                                  *)
(***************************************************************************)
\* the longest file looked at: one byte more than the header read
MaxFileLen == 13

PngBytes == <<137, 80, 78, 71, 13, 10, 26, 10, 0, 0, 0, 13, 73>>
GifBytes == <<71, 73, 70, 56, 57, 97, 1, 0, 1, 0, 128, 0, 0>>
WavBytes == <<82, 73, 70, 70, 9, 9, 9, 9, 87, 65, 86, 69, 102>>

RECURSIVE Pad(_, _)
Pad(s, n) == IF Len(s) >= n THEN s ELSE Pad(s \o <<Len(s)>>, n)

SampleFiles ==
    {Pad(JpegBytes, MaxFileLen), PngBytes, GifBytes, Pad(WebpBytes, MaxFileLen),
     WavBytes, TgsBytes, Fill(MaxFileLen), Zeros(MaxFileLen),
     <<255, 216>> \o Take(PngBytes, 8), <<137, 80, 78, 71>> \o Take(GifBytes, 8)}

DetectInputs == {Take(s, n) : s \in SampleFiles, n \in 0..MaxFileLen}

\* the variables of the download calls and of the cache directory
ClientVars == <<dir, data, mode, ncalls, pc, cur, fd, offset, log, attempts, fetched,
                det, result, probed, faulted, maker, returned, failures, expired,
                tool, pvresult>>

InitDetect ==
    /\ InitCache("detect", {"none"})
    /\ arg \in DetectInputs
    /\ out = NoOut
    /\ ServerIdle

\* detectImageFormat(filePath) on a file that holds arg
ApplyDetect ==
    /\ mode = "detect"
    /\ out = NoOut
    /\ out' = <<detectImageFormat(arg)>>
    /\ UNCHANGED <<arg, ClientVars, MapVars, MsgVars, AuthVars>>

NextDetect == ApplyDetect

SpecDetect == InitDetect /\ [][NextDetect]_vars

(***************************************************************************)
(* The projection of the map endpoint: latLngToTileNumbers, latLngToPixel  *)
(* and the marker offset of addLocationMarker.  Coordinates are whole      *)
(* degrees.  A pixel coordinate is a fraction; it is kept as its numerator *)
(* over LngDen (x) or MercDen (y).                                         *)
(***************************************************************************)
\* zoom := 15 of generateLocationMap
zoom == 15
\* the side of a tile in pixels
TileSide == 256
\* lng/180
LngDen == 180
\* the denominator of the table of math.Log(theta)/math.Pi
MercDen == 100

Zooms == 1..zoom
Lats == {-84, -60, -30, 0, 30, 56, 60, 84}
Lngs == {-180, -179, -91, -1, 0, 1, 38, 90, 179, 180}

\* math.Log(theta)/math.Pi for the latitude, in hundredths
Mercator(lat) ==
    CASE lat = -84 -> -94 [] lat = -60 -> -42 [] lat = -30 -> -17 [] lat = 0 -> 0
      [] lat = 30 -> 17 [] lat = 56 -> 38 [] lat = 60 -> 42 [] lat = 84 -> 94

RECURSIVE Pow2(_)
Pow2(n) == IF n = 0 THEN 1 ELSE 2 * Pow2(n - 1)

\* rho := math.Pow(2, float64(zoom)+8) / 2
Rho(z) == Pow2(z + 8) \div 2

\* math.Floor(n/d) for d > 0
Floor(n, d) == n \div d

\* int(n/d) of Go for d > 0: the fraction is cut off towards zero
Trunc(n, d) == IF n >= 0 THEN n \div d ELSE -((-n) \div d)

\* xPixel and yPixel of latLngToTileNumbers
TileXPixel(lng, z) == Rho(z) * (LngDen + lng)
TileYPixel(lat, z) == Rho(z) * (MercDen - Mercator(lat))

latLngToTileNumbers(lat, lng, z) ==
    <<Floor(TileXPixel(lng, z), LngDen * TileSide),
      Floor(TileYPixel(lat, z), MercDen * TileSide)>>

\* a plausible slip: the pixel is computed for the zoom level below
latLngToPixelZoomBelow(lat, lng, z) ==
    <<Rho(z - 1) * (LngDen + lng), Rho(z - 1) * (MercDen - Mercator(lat))>>

latLngToPixel(lat, lng, z) ==
    <<Rho(z) * (LngDen + lng), Rho(z) * (MercDen - Mercator(lat))>>

\* pixelX and pixelY of addLocationMarker for the tile (tileX, tileY)
MarkerOffset(lat, lng, z, tileX, tileY) ==
    LET px == latLngToPixel(lat, lng, z)
    IN <<Trunc(px[1], LngDen) - (tileX * TileSide),
         Trunc(px[2], MercDen) - (tileY * TileSide)>>

ProjInputs == [lat : Lats, lng : Lngs, zoom : Zooms]

InitProj ==
    /\ InitCache("proj", {"none"})
    /\ arg \in ProjInputs
    /\ out = NoOut
    /\ ServerIdle

\* x, y := s.latLngToTileNumbers(lat, lng, zoom), then the marker offset
\* of s.addLocationMarker(finalImg, lat, lng, zoom, x, y, tileX, tileY)
ApplyProjection ==
    /\ mode = "proj"
    /\ out = NoOut
    /\ LET t == latLngToTileNumbers(arg.lat, arg.lng, arg.zoom)
       IN out' = <<[tile |-> t,
                   pixel |-> MarkerOffset(arg.lat, arg.lng, arg.zoom, t[1], t[2])]>>
    /\ UNCHANGED <<arg, ClientVars, MapVars, MsgVars, AuthVars>>

NextProj == ApplyProjection

SpecProj == InitProj /\ [][NextProj]_vars

(***************************************************************************)
(* getLocationMap of the REST server: os.Stat of the map file, on a miss   *)
(* generateLocationMap (tile request, os.Create, png.Encode), then         *)
(* os.ReadFile.  Handlers of concurrent requests run side by side.  A      *)
(* raster is a record; an encoded file holds it as its one element.        *)
(***************************************************************************)
\* getLocationMap requests in one behaviour
MaxMapCalls == 3
\* finalWidth, finalHeight of generateLocationMap, and of the placeholder
finalWidth == 400
finalHeight == 300

MapLocs == {1}

\* lat, lng of the query, 0 when absent or not a number
MapQueries == {<<0, 0>>, <<60, 30>>, <<-30, -91>>}

\* Red Square, 55.7558 and 37.6173, in whole degrees
RedSquare == <<56, 38>>

\* the coordinates used: the default when both are 0
Coords(lat, lng) == IF lat = 0 /\ lng = 0 THEN RedSquare ELSE <<lat, lng>>

MapPath(loc) == PathOf("location_map", loc, ".png")

\* generateFallbackMap: a blue raster with a red dot of radius 5 at 200, 150
Placeholder ==
    [w |-> 400, h |-> 300, base |-> <<"blue">>, marker |-> <<200, 150>>, radius |-> 5]

\* the canvas of generateLocationMap: the tile in the centre, the marker of
\* radius 10 at the tile's corner plus the marker offset
MapImage(lat, lng) ==
    LET t == latLngToTileNumbers(lat, lng, zoom)
        off == MarkerOffset(lat, lng, zoom, t[1], t[2])
    IN [w |-> finalWidth, h |-> finalHeight, base |-> <<"tile", t[1], t[2]>>,
        marker |-> <<((finalWidth - TileSide) \div 2) + off[1],
                     ((finalHeight - TileSide) \div 2) + off[2]>>,
        radius |-> 10]

\* what the tile request gives: a tile, an error of http.Get, a status
\* other than 200, an error of io.ReadAll, an error of image.Decode
TileOutcomes == {"ok", "transport", "status", "body", "decode"}
TileFailures == TileOutcomes \ {"ok"}

\* a plausible slip: only the error of http.Get leads to the placeholder
FallbackOnTransportOnly(outcome) ==
    CASE outcome = "ok" -> "map"
      [] outcome = "transport" -> "fallback"
      [] OTHER -> "error"

\* generateLocationMap after the tile request: every failure leads to
\* generateFallbackMap
AfterTile(outcome) == IF outcome = "ok" THEN "map" ELSE "fallback"

\* the variables of a download call
CallVars == <<mode, cur, offset, log, attempts, fetched, det, result, probed, faulted,
              returned, failures, expired, tool, pvresult>>

InitMap ==
    /\ InitCache("map", {"none"})
    /\ arg = <<>>
    /\ out = NoOut
    /\ ServerIdle

\* the handler answers: status 200 with the body, or sendError
Answer(p, status, body) ==
    /\ pc' = [pc EXCEPT ![p] = "done"]
    /\ reply' = [reply EXCEPT ![p] = [status |-> status, body |-> body]]

\* GET /locations/{location_id}/map?lat=..&lng=..
MapRequest(p) ==
    /\ mode = "map"
    /\ pc[p] \in {"idle", "done"}
    /\ \A q \in Procs : q < p => pc[q] \notin {"idle", "done"}
    /\ ncalls < MaxMapCalls
    /\ ncalls' = ncalls + 1
    /\ \E loc \in MapLocs, q \in MapQueries :
          req' = [req EXCEPT ![p] =
                    [NoReq EXCEPT !.rid = ncalls + 1, !.loc = loc,
                                  !.lat = Coords(q[1], q[2])[1],
                                  !.lng = Coords(q[1], q[2])[2]]]
    /\ reply' = [reply EXCEPT ![p] = NoReply]
    /\ pc' = [pc EXCEPT ![p] = "m_stat"]
    /\ UNCHANGED <<dir, data, fd, maker, CallVars, PureVars, MsgVars, AuthVars>>

\* a plausible slip: the map is generated for every request
MapStatIgnoresFile(p) ==
    /\ pc[p] = "m_stat"
    /\ pc' = [pc EXCEPT ![p] = "m_tile"]
    /\ UNCHANGED <<dir, data, fd, maker, ncalls, req, reply, CallVars, PureVars, MsgVars, AuthVars>>

\* os.Stat(mapPath): the file exists and is read, or the map is generated
MapStat(p) ==
    /\ pc[p] = "m_stat"
    /\ IF Exists(dir, MapPath(req[p].loc))
       THEN /\ pc' = [pc EXCEPT ![p] = "m_read"]
            /\ req' = [req EXCEPT ![p].hit = TRUE]
       ELSE /\ pc' = [pc EXCEPT ![p] = "m_tile"]
            /\ req' = req
    /\ UNCHANGED <<dir, data, fd, maker, ncalls, reply, CallVars, PureVars, MsgVars, AuthVars>>

\* http.Get of the tile up to image.Decode, and the raster to be saved
MapTile(p, outcome) ==
    /\ pc[p] = "m_tile"
    /\ LET next == AfterTile(outcome)
       IN IF next = "error"
          THEN /\ req' = [req EXCEPT ![p].tile = outcome]
               /\ Answer(p, 500, <<>>)
          ELSE /\ req' = [req EXCEPT ![p].tile = outcome,
                                     ![p].image = IF next = "map"
                                                  THEN <<MapImage(req[p].lat, req[p].lng)>>
                                                  ELSE <<Placeholder>>]
               /\ pc' = [pc EXCEPT ![p] = "m_create"]
               /\ reply' = reply
    /\ UNCHANGED <<dir, data, fd, maker, ncalls, CallVars, PureVars, MsgVars, AuthVars>>

\* os.Create(mapPath); on an error the handler answers 500
MapCreate(p, ok) ==
    /\ pc[p] = "m_create"
    /\ IF ok
       THEN /\ LET t == MapPath(req[p].loc)
                   i == IF Exists(dir, t) THEN dir[t] ELSE FreshInode
                   dirN == [q \in DOMAIN dir \cup {t} |-> IF q = t THEN i ELSE dir[q]]
                   dataN == [j \in DOMAIN data \cup {i} |-> IF j = i THEN <<>> ELSE data[j]]
               IN Fs(req[p].rid, dirN, dataN, [fd EXCEPT ![p] = i])
            /\ pc' = [pc EXCEPT ![p] = "m_encode"]
            /\ UNCHANGED <<req, reply>>
       ELSE /\ req' = [req EXCEPT ![p].ioerr = TRUE]
            /\ Answer(p, 500, <<>>)
            /\ UNCHANGED <<dir, data, fd, maker>>
    /\ UNCHANGED <<ncalls, CallVars, PureVars, MsgVars, AuthVars>>

\* png.Encode(file, img) and the deferred file.Close()
MapEncode(p, ok) ==
    /\ pc[p] = "m_encode"
    /\ IF ok
       THEN /\ Fs(req[p].rid, dir, [data EXCEPT ![fd[p]] = WriteAt(@, 0, req[p].image)],
                  [fd EXCEPT ![p] = 0])
            /\ req' = [req EXCEPT ![p].wrote = req[p].image]
            /\ pc' = [pc EXCEPT ![p] = "m_read"]
            /\ reply' = reply
       ELSE /\ Fs(req[p].rid, dir, data, [fd EXCEPT ![p] = 0])
            /\ req' = [req EXCEPT ![p].ioerr = TRUE]
            /\ Answer(p, 500, <<>>)
    /\ UNCHANGED <<ncalls, CallVars, PureVars, MsgVars, AuthVars>>

\* os.ReadFile(mapPath) and w.Write(data)
MapRead(p, ok) ==
    /\ pc[p] = "m_read"
    /\ IF ok /\ Exists(dir, MapPath(req[p].loc))
       THEN /\ Answer(p, 200, Content(MapPath(req[p].loc)))
            /\ req' = req
       ELSE /\ Answer(p, 500, <<>>)
            /\ req' = [req EXCEPT ![p].ioerr = TRUE]
    /\ UNCHANGED <<dir, data, fd, maker, ncalls, CallVars, PureVars, MsgVars, AuthVars>>

NextMap ==
    \E p \in Procs :
        \/ MapRequest(p)
        \/ MapStat(p)
        \/ \E outcome \in TileOutcomes : MapTile(p, outcome)
        \/ \E ok \in BOOLEAN : MapCreate(p, ok)
        \/ \E ok \in BOOLEAN : MapEncode(p, ok)
        \/ \E ok \in BOOLEAN : MapRead(p, ok)

\* concurrent requests for the map of a location
SpecMap == InitMap /\ [][NextMap]_vars

(***************************************************************************)
(* GetMessages and processMessage.  The history of the chat is a list of   *)
(* remote messages; for every *tg.Message processMessage runs the loop     *)
(* over the document's attributes (or takes the photo), calls the download *)
(* function it selects, for a video with a path generateVideoPreview, and  *)
(* GetMessages appends the Message built.  Two requests for the chat run   *)
(* GetMessages side by side.                                               *)
(***************************************************************************)
\* doc.Attributes entries: "audio" is a DocumentAttributeAudio without
\* Voice, "voice" one with Voice
AttrKinds == {"filename", "imagesize", "sticker", "video", "audio", "voice"}

Qualifies(attr) == attr \in {"sticker", "video", "voice"}

\* a plausible slip: the loop goes on after a download
RECURSIVE AttrLoopNoBreak(_)
AttrLoopNoBreak(attrs) ==
    IF attrs = <<>> THEN <<>>
    ELSE IF Qualifies(Head(attrs)) THEN <<Head(attrs)>> \o AttrLoopNoBreak(Tail(attrs))
    ELSE AttrLoopNoBreak(Tail(attrs))

\* for _, attr := range doc.Attributes: the download functions called, in
\* order; the break after a sticker, video or voice attribute ends the loop
RECURSIVE AttrLoop(_)
AttrLoop(attrs) ==
    IF attrs = <<>> THEN <<>>
    ELSE IF Qualifies(Head(attrs)) THEN <<Head(attrs)>>
    ELSE AttrLoop(Tail(attrs))

\* remote messages: class "message" is *tg.Message, "service" any other
\* MessageClass; media is "none", "document", "photo" (a *tg.Photo),
\* "photoEmpty" or "other"
Remote(class, media, attrs) == [class |-> class, media |-> media, attrs |-> attrs]

RemoteMsgs ==
    {Remote("service", "none", <<>>),
     Remote("message", "none", <<>>),
     Remote("message", "photo", <<>>),
     Remote("message", "photoEmpty", <<>>),
     Remote("message", "document", <<"audio">>),
     Remote("message", "document", <<"imagesize", "sticker">>),
     Remote("message", "document", <<"video", "filename">>),
     Remote("message", "document", <<"audio", "voice">>),
     Remote("message", "document", <<"audio", "video", "sticker">>),
     Remote("message", "document", <<"sticker", "voice">>)}

\* the download functions processMessage calls for the message
Downloads(m) ==
    CASE m.media = "document" -> AttrLoop(m.attrs)
      [] m.media = "photo" -> <<"photo">>
      [] OTHER -> <<>>

\* the messages of the history that carry media to download
WithMedia(h) == {i \in DOMAIN h : h[i].class = "message" /\ Downloads(h[i]) # <<>>}

\* msg.Messages of the response: the message at place i has ID i
Histories ==
    {h \in UNION {[1..k -> RemoteMsgs] : k \in 1..MaxHistLen} :
        Cardinality(WithMedia(h)) <= MaxMedia}

HasAttr(m, a) == \E i \in 1..Len(m.attrs) : m.attrs[i] = a

\* the arguments of the download function: the sticker is keyed by doc.ID,
\* the others by message.ID
MsgCall(kind, id, m) ==
    CASE kind = "sticker" ->
           [NoCall EXCEPT !.kind = kind, !.id = 1, !.doc = 1,
                          !.ext = PreferredExt(HasAttr(m, "imagesize"))]
      [] kind = "photo" ->
           [NoCall EXCEPT !.kind = kind, !.id = id, !.sizes = <<PS90, STRIP, PS1280>>]
      [] OTHER ->
           [NoCall EXCEPT !.kind = kind, !.id = id, !.doc = 1,
                          !.ext = DeclaredExt(kind, IF HasAttr(m, "filename")
                                                    THEN VideoFileExt(2) ELSE "")]

\* message.ID of the message processMessage works on
MsgId(p) == Len(arg) - Len(gm[p].left) + 1

InitMsg ==
    /\ InitCache("msg", {"none"})
    /\ arg \in Histories
    /\ out = NoOut
    /\ ServerIdle

\* GetMessages(ctx, peerID, limit): MessagesGetHistory has answered
GetMessagesStart(p) ==
    /\ mode = "msg"
    /\ gm[p].at = "none" /\ outbox[p] = NoOut
    /\ \A q \in Procs : q < p => gm[q].at # "none" \/ outbox[q] # NoOut
    /\ gm' = [gm EXCEPT ![p] = [NoGm EXCEPT !.at = "loop", !.left = arg]]
    /\ UNCHANGED <<ClientVars, PureVars, MapVars, AuthVars, outbox>>

\* msgRaw.(*tg.Message) fails: nothing is appended
GmSkip(p) ==
    /\ gm[p].at = "loop" /\ gm[p].left # <<>>
    /\ Head(gm[p].left).class # "message"
    /\ gm' = [gm EXCEPT ![p].left = Tail(@)]
    /\ UNCHANGED <<ClientVars, PureVars, MapVars, AuthVars, outbox>>

\* processMessage(message, ...) starts: the switch on message.Media
GmProcess(p) ==
    /\ gm[p].at = "loop" /\ gm[p].left # <<>>
    /\ Head(gm[p].left).class = "message"
    /\ gm' = [gm EXCEPT ![p].at = "media", ![p].todo = Downloads(Head(gm[p].left)),
                        ![p].ran = <<>>]
    /\ UNCHANGED <<ClientVars, PureVars, MapVars, AuthVars, outbox>>

\* downloadStickerFile, downloadPhotoFile, downloadVideoFile or
\* downloadVoiceFile is called
GmDownload(p) ==
    /\ gm[p].at = "media" /\ gm[p].todo # <<>>
    /\ Begin(p, MsgCall(Head(gm[p].todo), MsgId(p), Head(gm[p].left)), "probe")
    /\ gm' = [gm EXCEPT ![p].at = "wait", ![p].todo = Tail(@)]
    /\ UNCHANGED outbox

\* the download function, and generateVideoPreview after a video with a
\* path, have returned
GmCollect(p) ==
    /\ gm[p].at = "wait" /\ pc[p] = "done"
    /\ (cur[p].kind = "video" /\ result[p] # NoPath) => pvresult[p] # NotRun
    /\ gm' = [gm EXCEPT ![p].at = "media",
                        ![p].ran = Append(@, [kind |-> cur[p].kind, path |-> result[p],
                                              preview |-> IF pvresult[p] = NotRun THEN NoPath
                                                          ELSE pvresult[p]])]
    /\ UNCHANGED <<ClientVars, PureVars, MapVars, AuthVars, outbox>>

\* return Message{...}, appended to result by GetMessages
GmAppend(p) ==
    /\ gm[p].at = "media" /\ gm[p].todo = <<>>
    /\ LET ran == gm[p].ran
           last == IF ran = <<>> THEN [kind |-> "text", path |-> NoPath, preview |-> NoPath]
                   ELSE ran[Len(ran)]
       IN gm' = [gm EXCEPT ![p].at = "loop", ![p].left = Tail(@), ![p].ran = <<>>,
                           ![p].list = Append(@, [ID |-> MsgId(p), Type |-> last.kind,
                                                  Path |-> last.path,
                                                  VideoPreviewPath |-> last.preview])]
    /\ UNCHANGED <<ClientVars, PureVars, MapVars, AuthVars, outbox>>

\* return result, nil
GmReturn(p) ==
    /\ gm[p].at = "loop" /\ gm[p].left = <<>>
    /\ outbox' = [outbox EXCEPT ![p] = <<gm[p].list>>]
    /\ gm' = [gm EXCEPT ![p] = NoGm]
    /\ UNCHANGED <<ClientVars, PureVars, MapVars, AuthVars>>

NextMsg ==
    \E p \in Procs :
        \/ GetMessagesStart(p)
        \/ GmSkip(p)
        \/ GmProcess(p)
        \/ GmDownload(p)
        \/ GmCollect(p)
        \/ GmAppend(p)
        \/ GmReturn(p)
        \/ ProbeHit(p)
        \/ ProbeMiss(p)
        \/ PhotoSizes(p)
        \/ Create(p)
        \/ CreateFail(p)
        \/ \E viaCdn \in BOOLEAN : FetchData(p, viaCdn)
        \/ \E why \in FailureKinds : FetchFailure(p, why)
        \/ Stat(p)
        \/ Cleanup(p)
        \/ Detect(p)
        \/ Rename(p)
        \/ \E refused \in BOOLEAN : RenameFail(p, refused)
        \/ StartPreview(p)
        \/ PvProbe(p)
        \/ \E outcome \in ToolOutcomes : ToolStart(p, outcome)
        \/ ToolExit(p)
        \/ PvStat1(p)
        \/ PvStat2(p)
        \/ PvSize(p)
        \/ PvRename(p)
        \/ PvFinal(p)

\* two requests for the messages of one chat
SpecMsg == InitMsg /\ [][NextMsg]_vars

(***************************************************************************)
(* Authorization.  setPhoneNumber starts AuthAndConnect in a goroutine;    *)
(* AuthAndConnect (and InitFromSession) start client.Run in a goroutine of *)
(* their own and wait in a select for authDone or the timer.  The code     *)
(* travels from sendCode to ConsoleAuth.Code through two files in /tmp.    *)
(***************************************************************************)
\* a plausible slip: the completion is signalled before the fields are set
OrderSignalFirst == <<"send", "set_api", "set_client", "hold">>

\* the statements of the callback of client.Run after a successful
\* authorization, in program order
Order == <<"set_api", "set_client", "send", "hold">>

\* the statement after op
NextOp(op) == Order[(CHOOSE i \in 1..Len(Order) : Order[i] = op) + 1]

\* IsAuthorized()
IsAuthorized == api # 0 /\ client # 0

\* the attempts are started in order
MayAttempt(a) ==
    /\ mode = "auth"
    /\ att[a].kind = "none"
    /\ \A b \in Attempts : b < a => att[b].kind # "none"

NotAuth == <<ClientVars, PureVars, MapVars, MsgVars>>

InitAuth ==
    /\ InitCache("auth", {"none"})
    /\ arg = <<>>
    /\ out = NoOut
    /\ ServerIdle

\* setPhoneNumber: go s.mtproto.AuthAndConnect(s.ctx, req.Phone), which
\* starts the goroutine of client.Run and waits
AuthAndConnect(a) ==
    /\ MayAttempt(a)
    /\ att' = [att EXCEPT ![a] = [NoAttempt EXCEPT !.kind = "auth", !.g = "run", !.w = "wait"]]
    /\ UNCHANGED <<signal, codeFile, nsent, api, client, authStatus, NotAuth>>

\* InitFromSession with a session file present
InitFromSession(a) ==
    /\ MayAttempt(a)
    /\ att' = [att EXCEPT ![a] = [NoAttempt EXCEPT !.kind = "session", !.g = "run", !.w = "wait"]]
    /\ UNCHANGED <<signal, codeFile, nsent, api, client, authStatus, NotAuth>>

\* client.Run calls the callback: Auth().Status or Auth().IfNecessary gives
\* an error, or finds the session authorized, or (IfNecessary) calls
\* ConsoleAuth.Code, which writes the signal file
ClientRun(a, outcome) ==
    /\ att[a].g = "run"
    /\ outcome = "code" => att[a].kind = "auth"
    /\ att' = [att EXCEPT ![a].g = CASE outcome = "ok" -> Order[1]
                                      [] outcome = "code" -> "code"
                                      [] OTHER -> "final",
                          ![a].err = IF outcome = "error" THEN "err" ELSE "nil",
                          ![a].codeAt = nsent]
    /\ signal' = IF outcome = "code" THEN TRUE ELSE signal
    /\ UNCHANGED <<codeFile, nsent, api, client, authStatus, NotAuth>>

\* one round of the loop of ConsoleAuth.Code that finds the code file: the
\* code is read, both files are removed, the code is returned
CodePoll(a) ==
    /\ att[a].g = "code"
    /\ codeFile # NoCode
    /\ att' = [att EXCEPT ![a].g = "signin", ![a].code = codeFile[1]]
    /\ codeFile' = NoCode
    /\ signal' = FALSE
    /\ UNCHANGED <<nsent, api, client, authStatus, NotAuth>>

\* the flow signs in with the code: accepted, or IfNecessary returns an error
SignIn(a, accepted) ==
    /\ att[a].g = "signin"
    /\ att' = [att EXCEPT ![a].g = IF accepted THEN Order[1] ELSE "final",
                          ![a].err = IF accepted THEN "nil" ELSE "err"]
    /\ UNCHANGED <<signal, codeFile, nsent, api, client, authStatus, NotAuth>>

\* m.api = client.API()
SetApi(a) ==
    /\ att[a].g = "set_api"
    /\ api' = a
    /\ att' = [att EXCEPT ![a].g = NextOp("set_api")]
    /\ UNCHANGED <<signal, codeFile, nsent, client, authStatus, NotAuth>>

\* m.client = client
SetClient(a) ==
    /\ att[a].g = "set_client"
    /\ client' = a
    /\ att' = [att EXCEPT ![a].g = NextOp("set_client")]
    /\ UNCHANGED <<signal, codeFile, nsent, api, authStatus, NotAuth>>

\* authDone <- nil: the send goes through when the buffer has room
SendDone(a) ==
    /\ att[a].g = "send"
    /\ att[a].ch = <<>>
    /\ att' = [att EXCEPT ![a].g = NextOp("send"), ![a].ch = <<"nil">>]
    /\ UNCHANGED <<signal, codeFile, nsent, api, client, authStatus, NotAuth>>

\* <-ctx.Done(): the server shuts down and client.Run returns nil
CtxDone(a) ==
    /\ att[a].g = "hold"
    /\ att' = [att EXCEPT ![a].g = "final", ![a].err = "nil"]
    /\ UNCHANGED <<signal, codeFile, nsent, api, client, authStatus, NotAuth>>

\* select { case authDone <- err: default: } after client.Run has returned
FinalSend(a) ==
    /\ att[a].g = "final"
    /\ att' = [att EXCEPT ![a].g = "over",
                          ![a].ch = IF @ = <<>> THEN <<att[a].err>> ELSE @]
    /\ UNCHANGED <<signal, codeFile, nsent, api, client, authStatus, NotAuth>>

\* case err := <-authDone of the waiting caller
Receive(a) ==
    /\ att[a].w = "wait"
    /\ att[a].ch # <<>>
    /\ att' = [att EXCEPT ![a].w = IF att[a].ch[1] = "nil" THEN "nil" ELSE "err",
                          ![a].ch = <<>>]
    /\ UNCHANGED <<signal, codeFile, nsent, api, client, authStatus, NotAuth>>

\* case <-time.After(...): the caller returns the timeout error
Timeout(a) ==
    /\ att[a].w = "wait"
    /\ att' = [att EXCEPT ![a].w = "timeout"]
    /\ UNCHANGED <<signal, codeFile, nsent, api, client, authStatus, NotAuth>>

\* sendCode: os.WriteFile(codeFile, req.Code)
sendCode ==
    /\ mode = "auth"
    /\ nsent < MaxCodes
    /\ nsent' = nsent + 1
    /\ codeFile' = <<nsent + 1>>
    /\ UNCHANGED <<signal, api, client, att, authStatus, NotAuth>>

\* getAuthStatus: IsAuthorized() and os.Stat of the signal file
getAuthStatus ==
    /\ mode = "auth"
    /\ authStatus' = [authorized |-> IsAuthorized, needs_code |-> signal]
    /\ UNCHANGED <<signal, codeFile, nsent, api, client, att, NotAuth>>

NextAuth ==
    \/ sendCode
    \/ getAuthStatus
    \/ \E a \in Attempts :
          \/ AuthAndConnect(a)
          \/ InitFromSession(a)
          \/ \E outcome \in {"ok", "code", "error"} : ClientRun(a, outcome)
          \/ CodePoll(a)
          \/ \E accepted \in BOOLEAN : SignIn(a, accepted)
          \/ SetApi(a)
          \/ SetClient(a)
          \/ SendDone(a)
          \/ CtxDone(a)
          \/ FinalSend(a)
          \/ Receive(a)
          \/ Timeout(a)

\* authorization attempts, code submissions and status requests
SpecAuth == InitAuth /\ [][NextAuth]_vars

(***************************************************************************)
(* The lookups of the REST server (getSticker, getImage, getVideo,         *)
(* getVoice): os.Stat of every extension in order, existence alone.        *)
(***************************************************************************)
serveExtensions(kind) ==
    CASE kind = "sticker" -> <<".webp", ".png">>
      [] kind = "photo"   -> <<".png", ".jpg", ".jpeg", ".webp", ".gif">>
      [] kind = "video"   -> <<".mp4", ".avi", ".mkv", ".mov", ".webm", ".flv">>
      [] kind = "voice"   -> <<".ogg", ".oga", ".mp3", ".wav", ".m4a", ".aac">>

RECURSIVE FirstExisting(_, _, _, _)
FirstExisting(kind, id, exts, d) ==
    IF exts = <<>> THEN NoPath
    ELSE IF Exists(d, PathOf(kind, id, Head(exts))) THEN PathOf(kind, id, Head(exts))
         ELSE FirstExisting(kind, id, Tail(exts), d)

ServeLookup(kind, id) == FirstExisting(kind, id, serveExtensions(kind), dir)

(***************************************************************************)
(* Properties.                                                             *)
(***************************************************************************)
\* the objects a complete file of the key may hold
ObjectsOf(kind, id) ==
    IF kind = "photo" THEN {PhotoObject(i) : i \in SizeItems}
    ELSE IF kind = "video" THEN {DocObject(kind, doc) : doc \in VideoDocs}
    ELSE {DocObject(kind, id)}

\* the bytes the call returned, as they were when it returned
ReturnedBytes(p) == {r.bytes : r \in {x \in returned : x.cid = cur[p].cid}}

\* C1: once a download call has returned a path P for (kind, id), every
\* later call for the same key issues no ranged read and returns P with the
\* same bytes.  Stated for calls of one caller, nothing else running.
C1_CacheIdempotent ==
    \A p \in Procs :
        (/\ pc[p] = "done"
         /\ cur[p].prior # {}
         /\ ~faulted[p]
         /\ \A q \in Procs \ {p} : pc[q] = "idle")
        => /\ ~fetched[p]
           /\ \A r \in cur[p].prior : result[p] = r.path /\ ReturnedBytes(p) = {r.bytes}

\* C2: a lookup of (kind, id), by the probe of a download call or by the
\* serving endpoint, never finds a file that holds only a proper prefix of
\* the object.
C2_NoPartialFileVisible ==
    \A kind \in Kinds, id \in Ids :
        \A path \in {Lookup(kind, id), ServeLookup(kind, id)} \ {NoPath} :
            \A obj \in ObjectsOf(kind, id) :
                ~(IsPrefix(Content(path), obj) /\ Content(path) # obj)

\* C3: two calls for the same key with the same arguments that both missed
\* the cache and met no error both return the canonical path, and the file
\* there holds the remote object.
C3_SameKeyRaceBenign ==
    \A p, q \in Procs :
        (/\ p # q
         /\ pc[p] = "done" /\ pc[q] = "done"
         /\ [cur[p] EXCEPT !.cid = 0, !.prior = {}] = [cur[q] EXCEPT !.cid = 0, !.prior = {}]
         /\ probed[p] = "miss" /\ probed[q] = "miss"
         /\ ~faulted[p] /\ ~faulted[q]
         /\ cur[p].kind = "photo" => Variants(p) # <<>>)
        => /\ result[p] # NoPath
           /\ result[q] = result[p]
           /\ Content(result[p]) \in ObjectsOf(cur[p].kind, cur[p].id) \ {<<>>}

\* C4: the probe never returns the path of a file of size 0, and after a
\* probe that found nothing no candidate of size 0 is left.
C4_ZeroByteNeverHit ==
    [][\A p \in Procs :
          (pc[p] = "probe" /\ pc'[p] # "probe")
          => /\ probed'[p] = "hit" => Content(result'[p]) # <<>>
             /\ probed'[p] = "miss" =>
                  \A i \in 1..Len(possibleExtensions(cur[p].kind)) :
                      LET c == PathOf(cur[p].kind, cur[p].id,
                                      possibleExtensions(cur[p].kind)[i])
                      IN Exists(dir', c) => SizeOf(dir', data', c) > 0]_vars

\* C5: a download call issues no ranged read before its probe of the cache
\* has ended, and none at all when the probe found an entry.
C5_LookupPrecedesNetwork ==
    \A p \in Procs :
        /\ fetched[p] => probed[p] = "miss"
        /\ probed[p] = "hit" => ~fetched[p]

\* C6: once a ranged read was answered with a CDN redirect, every later read
\* of the session goes to the CDN endpoint and none to the original location.
C6_CdnRedirectSticky ==
    \A p \in Procs :
        \A i, j \in 1..Len(log[p]) :
            (i < j /\ log[p][i].resp = "redirect") => log[p][j].ep = "cdn"

(***************************************************************************)
(* The fetch loop and the size order.                                      *)
(***************************************************************************)
\* every read of the session was answered with data by the original location
CleanOrigin(p) ==
    \A i \in 1..Len(log[p]) : log[p][i].ep = "origin" /\ log[p][i].resp = "data"

\* C7: for an object of N bytes served by the original location without
\* redirect or error the loop issues N \div chunkSize + 1 reads before it is
\* done, and no more while it runs; for N = 700000 and chunkSize = 512*1024
\* the reads are two, both with data.
C7_ChunkLoopBoundary ==
    /\ \A p \in Procs :
          CleanOrigin(p) =>
            /\ pc[p] = "stat" => Len(log[p]) = (Len(Object(p)) \div Limit(p)) + 1
            /\ pc[p] = "fetch" => /\ Len(log[p]) <= Len(Object(p)) \div Limit(p)
                                  /\ offset[p] = Len(log[p]) * Limit(p)
    /\ LoopChunks(700000, 0, 512 * 1024) = <<512 * 1024, 700000 - 512 * 1024>>

\* C7 witness: a loop is done after 2 reads of an object of exactly
\* chunkSize bytes
C7_Witness ==
    \E p \in Procs :
        /\ pc[p] = "stat" /\ CleanOrigin(p)
        /\ Len(Object(p)) = Limit(p)
        /\ Len(log[p]) = 2

RECURSIVE ReceivedBytes(_, _, _)
ReceivedBytes(obj, limit, lg) ==
    IF lg = <<>> THEN <<>>
    ELSE (IF Head(lg).resp = "data" THEN Slice(obj, Head(lg).off, limit) ELSE <<>>)
         \o ReceivedBytes(obj, limit, Tail(lg))

RECURSIVE ReceivedLen(_)
ReceivedLen(lg) == IF lg = <<>> THEN 0 ELSE Head(lg).n + ReceivedLen(Tail(lg))

\* C8: when the fetch loop of the single caller is done, the file it wrote
\* is the concatenation of the chunks received, in order, each requested at
\* the offset equal to the bytes received before it, and the file is as long
\* as the final offset.
C8_OutputEqualsChunks ==
    \A p \in Procs :
        pc[p] = "stat" =>
            /\ fd[p] # 0
            /\ data[fd[p]] = ReceivedBytes(Object(p), Limit(p), log[p])
            /\ \A i \in 1..Len(log[p]) : log[p][i].off = ReceivedLen(SubSeq(log[p], 1, i - 1))
            /\ Len(data[fd[p]]) = offset[p]

\* C8 witness: a loop is done that received two chunks with bytes, one of
\* them from the CDN
C8_Witness ==
    \E p \in Procs :
        /\ pc[p] = "stat"
        /\ Cardinality({i \in 1..Len(log[p]) : log[p][i].n > 0}) >= 2
        /\ \E i \in 1..Len(log[p]) : log[p][i].ep = "cdn" /\ log[p][i].n > 0
        /\ \E i \in 1..Len(log[p]) : log[p][i].ep = "origin" /\ log[p][i].n > 0

\* the names in the directory that the call of p has made
OwnPaths(p) == {q \in DOMAIN dir : maker[q] = cur[p].cid}

\* C9: a download call that ends in failure returns the empty path and
\* leaves no file behind, neither its temp file nor a canonical file: a call
\* other than a photo's that met an error returns the empty path, and a call
\* that returned the empty path has left no name it made.
C9_FailureLeavesNothing ==
    \A p \in Procs :
        pc[p] = "done" =>
            /\ (faulted[p] /\ cur[p].kind # "photo") => result[p] = NoPath
            /\ result[p] = NoPath => OwnPaths(p) = {}

\* C9 witness: a call has failed after reading, while a file of another
\* call is in the directory
C9_Witness ==
    \E p \in Procs :
        /\ pc[p] = "done" /\ result[p] = NoPath
        /\ faulted[p] /\ fetched[p]
        /\ dir # <<>>

UsableIdx(sizes) ==
    {i \in 1..Len(sizes) :
        sizes[i].t \in {"PhotoSize", "PhotoSizeProgressive", "PhotoStrippedSize"}}

DeclaredWidth(size) == IF size.t = "PhotoStrippedSize" THEN 0 ELSE size.w

UsableCount(sizes, w) == Cardinality({i \in UsableIdx(sizes) : DeclaredWidth(sizes[i]) = w})

AttemptCount(a, w) == Cardinality({i \in 1..Len(a) : a[i] = w})

Widths == {DeclaredWidth(x) : x \in SizeItems \cup {CACHED}}

\* C10: downloadPhotoFile hands the usable sizes to the fetch in
\* non-increasing order of width, zero width last, each at most once, never
\* one while a wider one is untried, and the file it returns is the one of
\* the last size handed over; for [90, 0, 1280] the order is 1280, 90, 0.
C10_PhotoVariantOrder ==
    \A p \in Procs :
        cur[p].kind = "photo" =>
            LET a == attempts[p]
                sizes == cur[p].sizes
            IN /\ \A i, j \in 1..Len(a) : i < j => a[i] >= a[j]
               /\ \A w \in Widths : AttemptCount(a, w) <= UsableCount(sizes, w)
               /\ \A w \in Widths :
                     (a # <<>> /\ AttemptCount(a, w) < UsableCount(sizes, w))
                     => w <= a[Len(a)]
               /\ (pc[p] = "done" /\ result[p] # NoPath /\ probed[p] # "hit")
                     => /\ a # <<>>
                        /\ \E x \in SizeItems :
                              x.w = a[Len(a)] /\ Content(result[p]) = PhotoObject(x)
               /\ sizes = <<PS90, STRIP, PS1280>> => IsPrefix(a, <<1280, 90, 0>>)

\* C10 witness: for [90, 0, 1280] the three sizes have been tried, 1280
\* first and the stripped one last
C10_Witness ==
    \E p \in Procs :
        /\ cur[p].sizes = <<PS90, STRIP, PS1280>>
        /\ attempts[p] = <<1280, 90, 0>>

(***************************************************************************)
(* Failures of a fetch.                                                    *)
(***************************************************************************)
NumUsable(sizes) == Cardinality(UsableIdx(sizes))

\* C11: in downloadPhotoFile a failed fetch of one size does not end the
\* call while an untried size remains: the call returns the empty path if
\* and only if every usable size has been tried and has failed (none at all
\* when the photo has no usable size).
C11_PhotoFallThrough ==
    \A p \in Procs :
        (cur[p].kind = "photo" /\ probed[p] # "hit") =>
            /\ failures[p] <= Len(attempts[p])
            /\ Len(attempts[p]) <= NumUsable(cur[p].sizes)
            /\ pc[p] = "done" =>
                  /\ result[p] = NoPath <=> failures[p] = NumUsable(cur[p].sizes)
                  /\ result[p] = NoPath => Len(attempts[p]) = NumUsable(cur[p].sizes)
                  /\ result[p] # NoPath => failures[p] = Len(attempts[p]) - 1

\* C11 witness: the fetch of the widest size has failed and the call has
\* returned the file of the next one
C11_Witness ==
    \E p \in Procs :
        /\ cur[p].kind = "photo" /\ pc[p] = "done"
        /\ attempts[p] = <<1280, 90>>
        /\ failures[p] = 1
        /\ result[p] # NoPath

\* C12: after a read was answered FILE_REFERENCE_EXPIRED the call issues no
\* further ranged read with that file reference and returns the empty path,
\* also when the photo has sizes left that carry the same file reference.
C12_ExpiredReferenceTerminal ==
    \A p \in Procs :
        expired[p] =>
            /\ log[p] = <<>>
            /\ pc[p] = "done" => result[p] = NoPath

(***************************************************************************)
(* The files of a key.                                                     *)
(***************************************************************************)
\* the canonical files of (kind, id) in the directory d
CanonicalPaths(d, kind, id) ==
    {q \in DOMAIN d : q[1] = Prefix(kind) /\ q[2] = id /\ q[3] # TempSuffix}

\* C13: in every state of the cache directory at most one canonical file
\* exists for each (kind, id); two files of a key that differ in the
\* extension alone never exist together.
C13_OneEntryPerKey ==
    \A kind \in Kinds, id \in Ids : Cardinality(CanonicalPaths(dir, kind, id)) <= 1

\* C14: the canonical path is a function of (kind, remote object id) that
\* two different objects never share: two download requests whose (kind,
\* remote object id) differ never resolve to the same path, and a request
\* never returns a file that holds another object's bytes.
C14_CollisionFreePaths ==
    \A r1, r2 \in returned :
        <<r1.key[1], r1.doc>> # <<r2.key[1], r2.doc>> => r1.path # r2.path

(***************************************************************************)
(* Previews.                                                               *)
(***************************************************************************)
\* the preview the REST server hands out with a video message
previewExtensions == <<".jpg", ".jpeg", ".png", ".webp">>

ServePreview(id) == FirstExisting("preview", id, previewExtensions, dir)

\* C15: no canonical media file of size 0 and no canonical preview below
\* the size floor exists at a path that the lookup or the REST server
\* accepts.
C15_NoEmptyArtifactPublished ==
    /\ \A kind \in Kinds, id \in Ids :
          \A q \in {Lookup(kind, id), ServeLookup(kind, id)} \ {NoPath} :
              SizeOf(dir, data, q) > 0
    /\ \A id \in Ids :
          \A q \in ({ServePreview(id)} \ {NoPath})
                   \cup ({PreviewPath(id)} \cap DOMAIN dir) :
              SizeOf(dir, data, q) >= MinPreviewSize

\* C16: no download and no preview operation panics, in any interleaving.
C16_NoPanic == \A p \in Procs : pc[p] # "panic"

\* the run did not give a usable frame: it failed, or it wrote no file or
\* one below the size floor
Unsuccessful(run) == run.outcome # "frame"

\* C17: when the first run of the tool, at T1, fails or ends with an output
\* that is missing or below the size floor, generateVideoPreview makes
\* exactly one more run, at T2, before it gives up.
C17_PreviewRetryTrigger ==
    \A p \in Procs :
        (pc[p] = "done" /\ tool[p] # <<>> /\ Unsuccessful(tool[p][1])) =>
            /\ Len(tool[p]) = 2
            /\ tool[p][2].ts = T2

\* C18: one call of generateVideoPreview runs the tool at most twice, at T1
\* first and at T2 only after the run at T1 has failed; when neither run
\* gave a usable frame the call returns the empty path and has published
\* no preview.
C18_PreviewRetryBounded ==
    \A p \in Procs :
        /\ Len(tool[p]) <= 2
        /\ Len(tool[p]) >= 1 => tool[p][1].ts = T1
        /\ Len(tool[p]) = 2 =>
              /\ tool[p][2].ts = T2
              /\ tool[p][1].outcome \in {"error", "error_partial"}
        /\ (/\ pc[p] = "done"
            /\ Len(tool[p]) = 2
            /\ Unsuccessful(tool[p][1]) /\ Unsuccessful(tool[p][2])) =>
              /\ pvresult[p] = NoPath
              /\ PreviewPath(cur[p].id) \in DOMAIN dir
                    => maker[PreviewPath(cur[p].id)] # cur[p].cid

\* C19: a reader of the canonical preview path sees no file or a complete
\* preview written by one run of the tool, in every interleaving.
C19_PreviewPublishAtomic ==
    \A id \in Ids :
        \A q \in ({ServePreview(id)} \ {NoPath}) \cup ({PreviewPath(id)} \cap DOMAIN dir) :
            Content(q) = FullFrame

\* C20: when the canonical preview of the id exists, generateVideoPreview
\* returns its path and runs no tool, whether or not the video file still
\* exists.
C20_CachedPreviewShortCircuit ==
    [][\A p \in Procs :
          (/\ pc[p] = "pv_probe" /\ pc'[p] # "pv_probe"
           /\ Exists(dir, PreviewPath(cur[p].id)))
          => /\ pc'[p] = "done"
             /\ pvresult'[p] = PreviewPath(cur[p].id)
             /\ tool'[p] = <<>>]_vars

\* C20 witness: the call has returned the cached preview, without a run of
\* the tool, while the video file is gone
C20_Witness ==
    \E p \in Procs :
        /\ pc[p] = "done"
        /\ pvresult[p] = PreviewPath(cur[p].id)
        /\ tool[p] = <<>>
        /\ ~Exists(dir, result[p])

(***************************************************************************)
(* The end of a download: rename, detection, extension.                    *)
(***************************************************************************)
\* the cleanup the call is in follows a failed os.Rename: the format has
\* been detected, which happens after the os.Stat of the temp file
AfterRenameFailure(p) == pc[p] = "cleanup" /\ det[p] # ""

\* C21: when os.Rename of the temp file to the canonical path fails, the
\* temp file is removed, the download returns the empty path and hands no
\* further location to the fetch, no further photo size either.
C21_RenameFailureTerminal ==
    [][\A p \in Procs :
          (AfterRenameFailure(p) /\ pc'[p] # "cleanup")
          => /\ ~Exists(dir', Target(p))
             /\ pc'[p] = "done"
             /\ result'[p] = NoPath
             /\ cur'[p].vi = cur[p].vi]_vars

\* the bytes b[from..to] are there and equal sig
HasAt(b, from, sig) ==
    /\ Len(b) >= from + Len(sig) - 1
    /\ SubSeq(b, from, from + Len(sig) - 1) = sig

\* the table: JPEG, PNG, GIF, WEBP by their signatures, in this order, for
\* a byte sequence of any length
FormatTable(b) ==
    IF HasAt(b, 1, <<255, 216>>) THEN ".jpg"
    ELSE IF HasAt(b, 1, <<137, 80, 78, 71, 13, 10, 26, 10>>) THEN ".png"
    ELSE IF HasAt(b, 1, <<71, 73, 70, 56>>) THEN ".gif"
    ELSE IF HasAt(b, 1, <<82, 73, 70, 70>>) /\ HasAt(b, 9, <<87, 69, 66, 80>>) THEN ".webp"
    ELSE ""

\* C22: for every byte sequence, of every length, detectImageFormat returns
\* the entry of the table: .jpg for FF D8, else .png for the PNG signature,
\* else .gif for GIF8, else .webp for RIFF....WEBP, else none; also for a
\* sequence shorter than 8 bytes that carries a whole JPEG or GIF signature.
C22_FormatDetectionTable == out # NoOut => out = <<FormatTable(arg)>>

\* the extension the spec gives a file of undetermined format
DefaultExt(kind) == IF kind = "sticker" THEN ".webp" ELSE ".png"

\* the call has downloaded a file in which detectImageFormat finds no format
Undetermined(p) ==
    /\ pc[p] = "done" /\ cur[p].kind \in {"sticker", "photo"}
    /\ probed[p] # "hit" /\ result[p] # NoPath
    /\ detectImageFormat(Content(result[p])) = ""

\* C23: a download whose file has no format the detection knows succeeds
\* and publishes under the default extension of its kind: .webp for every
\* sticker, .png for every photo.
C23_DefaultExtension ==
    \A p \in Procs :
        Undetermined(p) => result[p] = PathOf(cur[p].kind, cur[p].id, DefaultExt(cur[p].kind))

(***************************************************************************)
(* Progress of the fetch loop.                                             *)
(***************************************************************************)
\* C24: in every download session the offset is 0 at the first read and
\* grows with every iteration after which the loop goes on; an iteration
\* leaves the offset as it was only when the chunk it received is empty,
\* and that iteration is the last one.
C24_OffsetProgress ==
    [][\A p \in Procs :
          /\ (pc[p] = "create" /\ pc'[p] = "fetch") => offset'[p] = 0
          /\ (pc[p] = "fetch" /\ pc'[p] = "fetch" /\ log'[p] # log[p])
                => offset'[p] > offset[p]
          /\ (pc[p] = "fetch" /\ pc'[p] = "stat")
                => /\ offset'[p] >= offset[p]
                   /\ offset'[p] = offset[p] <=> log'[p][Len(log'[p])].n = 0]_vars

\* C24 witness: a loop has ended on an empty chunk after an iteration that
\* moved the offset
C24_Witness ==
    \E p \in Procs :
        /\ pc[p] = "stat"
        /\ offset[p] > 0
        /\ log[p][Len(log[p])].n = 0

\* the bytes of the object the loop has not received yet
BytesLeft(p, off) == Len(Object(p)) - off

\* C25: the fetch loop of an object of finite size whose reads are all
\* answered, with data, a CDN redirect, an error or an unrecognized
\* response, ends: every iteration after which the loop goes on has lowered
\* the bytes left, which are never below 0, and a loop that runs is
\* eventually left, done or failed.
C25_FetchLoopTerminates ==
    /\ [][\A p \in Procs :
             (pc[p] = "fetch" /\ pc'[p] = "fetch" /\ log'[p] # log[p])
             => /\ BytesLeft(p, offset'[p]) < BytesLeft(p, offset[p])
                /\ BytesLeft(p, offset'[p]) >= 0]_vars
    /\ \A p \in Procs : (pc[p] = "fetch") ~> (pc[p] # "fetch")

\* C25 witness: a loop has ended after three reads, one of them answered
\* with a redirect
C25_Witness ==
    \E p \in Procs :
        /\ pc[p] = "stat"
        /\ Len(log[p]) >= 3
        /\ \E i \in 1..Len(log[p]) : log[p][i].resp = "redirect"

TileFailed(p) == pc[p] = "done" /\ req[p].tile \in TileFailures

\* no other request has run beside those of handler p
Alone(p) == \A q \in Procs \ {p} : pc[q] = "idle"

\* C26: for every failure of the tile request (transport error, status
\* other than 200, body read error, decode error) generateLocationMap
\* writes the placeholder, 400 by 300 with the marker in the centre, to the
\* map path and returns no error: getLocationMap answers 200, with the
\* placeholder when no other request ran beside it, and answers with an
\* error only when a file operation failed.
C26_GracefulMapFallback ==
    \A p \in Procs :
        TileFailed(p) =>
            /\ reply[p].status # 200 => req[p].ioerr
            /\ ~req[p].ioerr =>
                  /\ reply[p].status = 200
                  /\ req[p].wrote = <<Placeholder>>
                  /\ Placeholder.w = 400 /\ Placeholder.h = 300
                  /\ Placeholder.marker = <<Placeholder.w \div 2, Placeholder.h \div 2>>
                  /\ Alone(p) => reply[p].body = <<Placeholder>>

\* C26 witness: a request whose tile could not be decoded has been
\* answered with the placeholder
C26_Witness ==
    \E p \in Procs :
        /\ TileFailed(p) /\ req[p].tile = "decode"
        /\ reply[p] = [status |-> 200, body |-> <<Placeholder>>]

\* C28: once the map file of a location exists, a request for the location
\* makes no tile request and answers with the bytes of the file, whatever
\* coordinates it carries.
C28_MapCachedByPath ==
    [][\A p \in Procs :
          /\ (/\ pc[p] = "m_stat" /\ pc'[p] # "m_stat"
              /\ Exists(dir, MapPath(req[p].loc)))
             => pc'[p] = "m_read" /\ req'[p].hit
          /\ (req[p].hit /\ pc[p] = "m_read" /\ pc'[p] = "done")
             => /\ req'[p].tile = "none" /\ req'[p].wrote = <<>>
                /\ ~req'[p].ioerr =>
                      reply'[p] = [status |-> 200,
                                   body |-> Content(MapPath(req[p].loc))]]_vars

\* C28 witness: a request has been answered with the map that was drawn
\* for the coordinates of an earlier request
C28_Witness ==
    \E p \in Procs :
        /\ pc[p] = "done" /\ req[p].hit /\ req[p].tile = "none"
        /\ reply[p].status = 200
        /\ reply[p].body # <<>>
        /\ reply[p].body # <<Placeholder>>
        /\ reply[p].body # <<MapImage(req[p].lat, req[p].lng)>>

(***************************************************************************)
(* Message processing.                                                     *)
(***************************************************************************)
\* the places of the attributes that call for a download
QualifyingAt(m) == {i \in 1..Len(m.attrs) : Qualifies(m.attrs[i])}

\* the media kind of the message: the photo, or the first attribute of the
\* document that calls for a download; "text" when there is none
MediaKind(m) ==
    CASE m.media = "photo" -> "photo"
      [] m.media = "document" /\ QualifyingAt(m) # {} ->
           m.attrs[CHOOSE i \in QualifyingAt(m) : \A j \in QualifyingAt(m) : i <= j]
      [] OTHER -> "text"

\* the download functions called so far for the message p works on
Invoked(p) ==
    [i \in 1..Len(gm[p].ran) |-> gm[p].ran[i].kind]
      \o (IF gm[p].at = "wait" THEN <<cur[p].kind>> ELSE <<>>)

\* C29: processing one message calls at most one download function, the
\* one of the first qualifying attribute in the document's attribute order
\* (or downloadPhotoFile for a photo), also when several attributes
\* qualify.
C29_OneDownloadPerMessage ==
    \A p \in Procs :
        gm[p].at \in {"media", "wait"} =>
            /\ Len(Invoked(p)) <= 1
            /\ \A i \in 1..Len(Invoked(p)) : Invoked(p)[i] = MediaKind(Head(gm[p].left))

\* C29 witness: a document with two qualifying attributes has been
\* processed with one download, and nothing is left to call
C29_Witness ==
    \E p \in Procs :
        /\ gm[p].at = "media" /\ gm[p].todo = <<>>
        /\ Cardinality(QualifyingAt(Head(gm[p].left))) >= 2
        /\ Len(gm[p].ran) = 1

\* the IDs and Types GetMessages is to return for the history, from place i
RECURSIVE Expected(_, _)
Expected(h, i) ==
    IF i > Len(h) THEN <<>>
    ELSE IF h[i].class = "message"
         THEN <<[ID |-> i, Type |-> MediaKind(h[i])]>> \o Expected(h, i + 1)
         ELSE Expected(h, i + 1)

\* the list carries the expected IDs and Types in order
Delivers(list, h) ==
    /\ Len(list) = Len(Expected(h, 1))
    /\ \A i \in 1..Len(list) :
          /\ list[i].ID = Expected(h, 1)[i].ID
          /\ list[i].Type = Expected(h, 1)[i].Type

\* what GetMessages has returned is one Message per *tg.Message, in order,
\* with the Type of the media kind whatever the download gave
ReturnedListDelivers ==
    \A p \in Procs : outbox[p] # NoOut => Delivers(outbox[p][1], arg)

\* C30: a failed download or preview generation does not affect message
\* delivery: no GetMessages call is cut short inside processMessage, and
\* the list returned has one Message per remote *tg.Message, in the order
\* received, each with the Type of its media kind.
C30_MediaFailureKeepsDelivery ==
    /\ \A p \in Procs : gm[p].at # "none" => pc[p] # "panic"
    /\ ReturnedListDelivers

(***************************************************************************)
(* Frame conditions of the cache.                                          *)
(***************************************************************************)
\* the call of p has ended in failure
EndedInFailure(p) == pc[p] = "done" /\ cur[p].kind \in Kinds /\ result[p] = NoPath

\* C31: a download call that ends in failure leaves every non-empty
\* canonical file that an earlier call for the same key had published
\* before it in place with its content, also a video or voice file stored
\* under an extension of the filename attribute that the probe list lacks.
C31_FailureKeepsCacheEntry ==
    \A p \in Procs :
        EndedInFailure(p) =>
            \A r \in cur[p].prior :
                r.bytes # <<>> => Exists(dir, r.path) /\ Content(r.path) = r.bytes

\* the call of p has returned a path, and the file is there
Published(p) ==
    /\ pc[p] = "done" /\ cur[p].kind \in Kinds
    /\ result[p] # NoPath /\ Exists(dir, result[p])

\* C32: every path a download function returns is found by the REST
\* endpoint of its kind when asked for the id, and the endpoint and the
\* probe of the download function select the same file.
C32_PublishedIsServed ==
    \A p \in Procs :
        Published(p) =>
            /\ ServeLookup(cur[p].kind, cur[p].id) # NoPath
            /\ ServeLookup(cur[p].kind, cur[p].id) = Lookup(cur[p].kind, cur[p].id)

\* the path is derived from the key of the call p runs: the prefix of its
\* kind (for a video also that of its preview) and its id
OwnsPath(p, q) ==
    /\ q[2] = cur[p].id
    /\ q[1] \in {Prefix(cur[p].kind)}
                \cup (IF cur[p].kind = "video" THEN {Prefix("preview")} ELSE {})

\* the step creates, removes, replaces or writes the file at q
Touched(q) ==
    \/ (q \in DOMAIN dir) # (q \in DOMAIN dir')
    \/ /\ q \in DOMAIN dir /\ q \in DOMAIN dir'
       /\ dir[q] # dir'[q] \/ data[dir[q]] # data'[dir'[q]]

\* the step is one of the call of p
Acts(p) ==
    <<pc[p], cur[p], offset[p], log[p], fd[p], tool[p]>>
      # <<pc'[p], cur'[p], offset'[p], log'[p], fd'[p], tool'[p]>>

Writing(o, loc) == pc[o] = "m_encode" /\ req[o].loc = loc

\* C34: every body getLocationMap sends is a complete encoded raster, and a
\* request that found the map file existing does not read it while another
\* request is still writing it.
C34_NoPartialMapServed ==
    \A p \in Procs :
        /\ (pc[p] = "done" /\ reply[p].status = 200) => Len(reply[p].body) = 1
        /\ (pc[p] = "m_read" /\ req[p].hit) =>
              \A o \in Procs \ {p} : ~Writing(o, req[p].loc)

(***************************************************************************)
(* Authorization.                                                          *)
(***************************************************************************)
\* C35: the code ConsoleAuth.Code returns was written by a sendCode request
\* made after the call created the signal file; a code file left over from
\* before the call is never returned.
C35_CodeIsFresh ==
    \A a \in Attempts : att[a].code # 0 => att[a].code > att[a].codeAt

\* some ConsoleAuth.Code call is waiting for a code
CodeAwaited == \E a \in Attempts : att[a].g = "code"

\* C36: getAuthStatus reports needs_code (the signal file exists) exactly
\* when some ConsoleAuth.Code call is waiting for a code, also when more
\* than one authorization attempt has been started.
C36_NeedsCodeTracksWaiter == signal <=> CodeAwaited

\* AuthAndConnect or InitFromSession of the attempt has returned the
\* timeout error
TimedOut(a) == att[a].w = "timeout"

\* C37: after the caller of an attempt has returned the timeout error, the
\* attempt consumes no code and sets neither m.api nor m.client.
C37_TimedOutAttemptIsInert ==
    [][\A a \in Attempts :
          TimedOut(a) =>
              /\ att'[a].code = att[a].code
              /\ api' = a => api = a
              /\ client' = a => client = a]_vars

\* C38: when AuthAndConnect or InitFromSession returns nil, m.api and
\* m.client are set, so IsAuthorized() is true, and it stays true; the
\* goroutine finds room in authDone whenever it reaches the send, whether
\* the caller has received or has timed out.
C38_SuccessImpliesAuthorized ==
    [][/\ IsAuthorized => IsAuthorized'
       /\ \A a \in Attempts :
             /\ att'[a].w = "nil" => IsAuthorized'
             /\ att'[a].g = "send" => att'[a].ch = <<>>]_vars

\* C38 witness: one attempt has returned nil with the client authorized,
\* and the goroutine of an attempt that timed out has gone past its send
C38_Witness ==
    \E a \in Attempts, b \in Attempts :
        /\ att[a].w = "nil" /\ IsAuthorized
        /\ TimedOut(b) /\ att[b].g \in {"hold", "over"} /\ att[b].ch # <<>>

====
